---- MODULE Spec2Model ----
(***************************************************************************)
(* Workflow execution core of Weavy: DAG validation and wave scheduling    *)
(* (src/lib/dag.ts), the run lifecycle started by POST /api/runs, the      *)
(* engine executeWorkflowNodes (lib/execution), the cancel/delete handler  *)
(* DELETE /api/runs/[id], and the I/O of frame extraction (downloadVideo,  *)
(* getVideoDuration, extractFrameParams) in lib/execution and in the       *)
(* extract-frame task, the crop rectangle of executeCropImageNode and      *)
(* cropImageClient, and the inference executor executeLLMNode.             *)
(*                                                                         *)
(* Node ids are naturals; a node array is a sequence of ids, an edge array *)
(* a sequence of records [source, target].                                 *)
(***************************************************************************)
EXTENDS Integers, Sequences, FiniteSets, TLC

\* ---------------------------------------------------------------- bounds
MaxNodes == 4        \* node ids are 1..MaxNodes (graphs of the DAG functions)
MaxEdges == 4        \* longest edge array handed to the DAG functions
MaxSel == 2          \* longest selectedNodeIds array
MaxRunNodes == 2     \* node ids of submitted run requests are 1..MaxRunNodes
MaxRunEdges == 2     \* longest edge array of a submitted run request
MaxRunSel == 1       \* longest selectedNodes array of a submitted run request
MaxDeletes == 2      \* DELETE /api/runs/[id] requests sent for the run
MaxCap == 2          \* maxBytes handed to downloadVideo is 1..MaxCap
MaxDeclared == 4     \* largest content-length a response declares
MaxChunks == 3       \* most chunks a response body delivers
MaxChunkLen == 2     \* longest chunk of a response body
MaxDuration == 2     \* short clips last 0..MaxDuration hundredths of a second
MaxSuffix == 2       \* Math.random yields one of MaxSuffix directory suffixes
MaxDim == 3          \* small images have sides of 1..MaxDim pixels
PercentSteps == 4    \* crop percentages lie on a grid of PercentSteps steps over 0..100
MaxUpstream == 2     \* most upstream outputs handed to executeLLMNode
MaxStoreNodes == 2   \* addNode is called at most MaxStoreNodes times
MaxSteps == 4        \* store actions called on top of the initial store
MaxClientRuns == 2   \* runNode is invoked at most MaxClientRuns times

VARIABLES
    nodes,            \* request body: node array
    edges,            \* request body: edge array
    scope,            \* request body: "FULL" | "PARTIAL"
    selectedNodes,    \* request body: selectedNodes array
    nodeTypes,        \* request body: node.type per node id
    nodeData,         \* request body: the configured value of node.data per node
                      \* id as its executor read it, "unread" before
    pc,               \* position of the request / of the DAG function driver
    validation,       \* result of validateDAG
    nodesToExecute,   \* POST: nodes handed to the engine
    edgesToExecute,   \* POST: edges handed to the engine
    parallelGroups,   \* result of getParallelGroups
    runStatus,        \* Run.status column, "NONE" while no Run row exists
    nodeLog,          \* NodeLog.status per node, "NONE" while no row exists
    enginePc,         \* position of executeWorkflowNodes
    groupIndex,       \* groupIndex of the for loop (1-based)
    taskPc,           \* position of each node's async callback in group.map
    outputs,          \* context.outputs: set of node ids that have an entry
    outputWrites,     \* number of context.outputs.set calls per node id
    upstreamData,     \* per node: the sources whose output was defined when read
    executions,       \* number of executeNode invocations per node id
    executorResult,   \* per node: "none", "ok", or the message executeNode threw
    logOutput,        \* NodeLog.output per node: TRUE when a value is stored
    logError,         \* NodeLog.error per node, "" while null
    delPc,            \* position of the DELETE handler
    existing,         \* DELETE: status read by findFirst
    deletes,          \* DELETE requests sent so far
    impl,             \* which frame extractor runs: "execution" | "trigger"
    maxBytes,         \* downloadVideo: byte cap
    contentLength,    \* response header content-length, -1 when absent
    body,             \* response body: the lengths of the chunks it delivers
    mediaPc,          \* position of the frame extractor
    dlResult,         \* downloadVideo's promise: "pending" | "resolved" | "rejected"
    downloaded,       \* downloadVideo: running byte count
    written,          \* bytes handed to fileStream.write
    reads,            \* chunks obtained from reader.read()
    fileStream,       \* destination: "unopened" | "open" | "ended" | "closed"
    readerCancelled,  \* reader.cancel() was called
    needDrain,        \* fileStream.write returned false and no drain came yet
    buffered,         \* the destination holds written data it has not flushed
    aborted,          \* controller.abort() was called by the download timer
    timer,            \* download timer: "unset" | "armed" | "cleared"
    duration,         \* value getVideoDuration resolved with, -1 before
    mediaError,       \* message of the error the extractor failed with
    videoInput,       \* kind of the upstream video reference (payload.videoUrl)
    timestamp,        \* node.data.timestamp / payload.timestamp, as characters
    uniqueId,         \* suffix Math.random gave the temp directory, 0 before
    dirs,             \* temp directories of other invocations with the same prefix
    tmpDir,           \* this invocation's directory: "none" | "created" | "removed"
    probeOutput,      \* what the probe's child process had printed when it closed
    seek,             \* seek offset handed to extractFrameParams, in microseconds
    exitCode,         \* exit code of the extraction's child process, -1 before
    frameFile,        \* the extraction left a file at framePath
    frameResult,      \* how the extractor ended: "pending" | "returned" | "threw" | "failed"
    cropImpl,         \* which crop runs: "execution" (sharp) | "client" (canvas)
    imgWidth,         \* pixel width of the image to crop
    imgHeight,        \* pixel height of the image to crop
    xPercent,         \* node.data.xPercent / params.xPercent
    yPercent,         \* node.data.yPercent / params.yPercent
    widthPercent,     \* node.data.widthPercent / params.widthPercent
    heightPercent,    \* node.data.heightPercent / params.heightPercent
    region,           \* <<>> until the crop extracts <<[left, top, width, height]>>
    groqKey,          \* process.env.GROQ_API_KEY is set
    hfKey,            \* process.env.HUGGINGFACE_API_KEY is set
    upstreamOutputs,  \* executeLLMNode: kinds of the upstream outputs, in order
    llmPc,            \* position of executeLLMNode
    reply,            \* <<>> until the classification call settles with <<reply>>
    intent,           \* result of classifyIntentLocal, "none" before
    calls,            \* collaborator calls issued so far, in order
    llmResult,        \* how executeLLMNode ended: "pending" | "returned" | "threw"
    llmError,         \* message of the error executeLLMNode threw
    workflowId,       \* store: workflowId, "null" or the id of the loaded workflow
    history,          \* store: history, snapshots [nodes, edges]
    historyIndex,     \* store: historyIndex (0-based, -1 when there is none)
    lastOp,           \* the store action called last, its arguments, and whether
                      \* it got to its set()
    prevOp,           \* the store action called before lastOp, without arguments
    lastEdit,         \* nodes and edges just before and just after the last edit
    steps,            \* store actions called so far
    isExecuting,      \* store: isExecuting
    currentRunId,     \* store: currentRunId, 0 for null
    pollPc,           \* per runNode invocation: position of runNode / poll
    runRecords,       \* per run the client started: Run.status, "NONE" before the
                      \* row exists, "DELETED" once it is removed
    engineOver,       \* per run: executeWorkflowNodes has returned
    delRead,          \* per run: status a DELETE handler has read, "none" otherwise
    runDeletes,       \* DELETE requests sent for the client's runs
    lastSeen          \* per run: "pending" once runNode marked its nodes, then
                      \* the run status of the last response poll applied

vars == <<nodes, edges, scope, selectedNodes, nodeTypes, nodeData, pc, validation,
          nodesToExecute, edgesToExecute, parallelGroups, runStatus, nodeLog, enginePc,
          groupIndex, taskPc, outputs, outputWrites, upstreamData, executions,
          executorResult, logOutput, logError, delPc, existing, deletes, impl,
          maxBytes, contentLength, body, mediaPc, dlResult, downloaded, written, reads,
          fileStream, readerCancelled, needDrain, buffered, aborted, timer, duration,
          mediaError, videoInput, timestamp, uniqueId, dirs, tmpDir, probeOutput, seek,
          exitCode, frameFile, frameResult, cropImpl, imgWidth, imgHeight, xPercent,
          yPercent, widthPercent, heightPercent, region, groqKey, hfKey,
          upstreamOutputs, llmPc, reply, intent, calls, llmResult, llmError,
          workflowId, history, historyIndex, lastOp, prevOp, lastEdit, steps,
          isExecuting, currentRunId, pollPc, runRecords, engineOver, delRead,
          runDeletes, lastSeen>>

requestVars == <<nodes, edges, scope, selectedNodes, nodeTypes, nodeData>>
runVars == <<runStatus, nodeLog, enginePc, groupIndex, taskPc, outputs, outputWrites,
             upstreamData, executions, executorResult, logOutput, logError>>
deleteVars == <<delPc, existing, deletes>>
mediaInput == <<impl, maxBytes, contentLength, body>>
frameInput == <<videoInput, timestamp>>
frameVars == <<frameInput, uniqueId, dirs, tmpDir, probeOutput, seek, exitCode,
               frameFile, frameResult>>
mediaVars == <<mediaInput, mediaPc, dlResult, downloaded, written, reads, fileStream,
               readerCancelled, needDrain, buffered, aborted, timer, duration,
               mediaError, frameVars>>
cropInput == <<cropImpl, imgWidth, imgHeight, xPercent, yPercent, widthPercent,
               heightPercent>>
cropVars == <<cropInput, region>>
llmInput == <<groqKey, hfKey, upstreamOutputs>>
llmVars == <<llmInput, llmPc, reply, intent, calls, llmResult, llmError>>
storeVars == <<workflowId, history, historyIndex, lastOp, prevOp, lastEdit, steps>>
executionState == <<isExecuting, currentRunId>>
clientVars == <<pollPc, runRecords, engineOver, delRead, runDeletes, lastSeen>>
editorVars == <<storeVars, executionState, clientVars>>
executorVars == <<cropVars, llmVars, editorVars>>
engineVars == <<requestVars, pc, validation, nodesToExecute, edgesToExecute,
                parallelGroups, runVars, deleteVars>>

IDs == 1..MaxNodes
RunIDs == 1..MaxRunNodes

\* ------------------------------------------------------------- utilities
Range(s) == {s[i] : i \in 1..Len(s)}

Rank(e) == e.source * (MaxNodes + MaxRunNodes + 1) + e.target

\* Edge arrays up to the order of their elements (no result of dag.ts
\* depends on the order of the edge array); duplicates are kept.
EdgeArrays(ids, maxLen) ==
    UNION {{s \in [1..k -> [source : ids, target : ids]] :
              \A i \in 1..(k - 1) : Rank(s[i]) <= Rank(s[i + 1])} : k \in 0..maxLen}

\* Node arrays: ids 1..n in order.
NodeArray(n) == [i \in 1..n |-> i]

\* selectedNodeIds arrays: strictly increasing id sequences.
SelArrays(ids, maxLen) ==
    UNION {{s \in [1..k -> ids] : \A i \in 1..(k - 1) : s[i] < s[i + 1]} : k \in 0..maxLen}

\* --------------------------------------------------------- src/lib/dag.ts
NoEdgeError == "Edge references non-existent node"
CycleError == "Workflow contains a cycle"

\* adjacencyList.get(id): targets of the edges leaving id, in edge order,
\* built only from edges whose endpoints are both node ids.
adjacencyList(ns, es) ==
    LET nodeIds == Range(ns)
        RECURSIVE build(_, _)
        build(i, id) ==
            IF i > Len(es) THEN <<>>
            ELSE IF es[i].source = id /\ es[i].source \in nodeIds /\ es[i].target \in nodeIds
                 THEN <<es[i].target>> \o build(i + 1, id)
                 ELSE build(i + 1, id)
    IN [id \in nodeIds |-> build(1, id)]

\* reverseAdjacency.get(id): sources of the edges entering id.
reverseAdjacency(ns, es) ==
    LET nodeIds == Range(ns)
        RECURSIVE build(_, _)
        build(i, id) ==
            IF i > Len(es) THEN <<>>
            ELSE IF es[i].target = id /\ es[i].source \in nodeIds /\ es[i].target \in nodeIds
                 THEN <<es[i].source>> \o build(i + 1, id)
                 ELSE build(i + 1, id)
    IN [id \in nodeIds |-> build(1, id)]

\* hasCycle(nodeId) of validateDAG: DFS with the visited and recursionStack
\* sets threaded through; returns [cyc, visited, stack].
RECURSIVE hasCycle(_, _, _)
RECURSIVE hasCycleNeighbors(_, _, _, _)
hasCycle(adj, nodeId, st) ==
    LET st1 == [cyc |-> FALSE,
                visited |-> st.visited \cup {nodeId},
                stack |-> st.stack \cup {nodeId}]
        r == hasCycleNeighbors(adj, adj[nodeId], 1, st1)
    IN IF r.cyc THEN r
       ELSE [cyc |-> FALSE, visited |-> r.visited, stack |-> r.stack \ {nodeId}]

\* Variant of hasCycleNeighbors: any visited neighbor counts as a back-edge
\* (the recursionStack test is dropped).
RECURSIVE hasCycleNeighbors_noStack(_, _, _, _)
hasCycleNeighbors_noStack(adj, neighbors, i, st) ==
    IF i > Len(neighbors) THEN st
    ELSE LET neighbor == neighbors[i] IN
         IF neighbor \notin st.visited
         THEN LET r == hasCycle(adj, neighbor, st) IN
              IF r.cyc THEN r ELSE hasCycleNeighbors_noStack(adj, neighbors, i + 1, r)
         ELSE [cyc |-> TRUE, visited |-> st.visited, stack |-> st.stack]

hasCycleNeighbors(adj, neighbors, i, st) ==
    IF i > Len(neighbors) THEN st
    ELSE LET neighbor == neighbors[i] IN
         IF neighbor \notin st.visited
         THEN LET r == hasCycle(adj, neighbor, st) IN
              IF r.cyc THEN r ELSE hasCycleNeighbors(adj, neighbors, i + 1, r)
         ELSE IF neighbor \in st.stack
              THEN [cyc |-> TRUE, visited |-> st.visited, stack |-> st.stack]
              ELSE hasCycleNeighbors(adj, neighbors, i + 1, st)

\* Variant of validateDAG: the edge endpoints are checked, the cycle search
\* is left out.
validateDAG_noCycleCheck(ns, es) ==
    LET nodeIds == Range(ns) IN
    IF \E i \in 1..Len(es) : es[i].source \notin nodeIds \/ es[i].target \notin nodeIds
    THEN [valid |-> FALSE, error |-> NoEdgeError]
    ELSE [valid |-> TRUE, error |-> ""]

validateDAG(ns, es) ==
    LET nodeIds == Range(ns)
        adj == adjacencyList(ns, es)
        RECURSIVE roots(_, _)
        roots(i, st) ==
            IF i > Len(ns) THEN FALSE
            ELSE IF ns[i] \notin st.visited
                 THEN LET r == hasCycle(adj, ns[i], st) IN
                      IF r.cyc THEN TRUE ELSE roots(i + 1, r)
                 ELSE roots(i + 1, st)
    IN IF \E i \in 1..Len(es) : es[i].source \notin nodeIds \/ es[i].target \notin nodeIds
       THEN [valid |-> FALSE, error |-> NoEdgeError]
       ELSE IF roots(1, [cyc |-> FALSE, visited |-> {}, stack |-> {}])
            THEN [valid |-> FALSE, error |-> CycleError]
            ELSE [valid |-> TRUE, error |-> ""]

\* Variant of inDegreeInit: counts the edges leaving a node, not entering it.
inDegreeInit_outDegree(ns, es) ==
    LET nodeIds == Range(ns) IN
    [id \in nodeIds |->
        Cardinality({i \in 1..Len(es) :
            es[i].source = id /\ es[i].source \in nodeIds /\ es[i].target \in nodeIds})]

\* Initial in-degrees of getParallelGroups.
inDegreeInit(ns, es) ==
    LET nodeIds == Range(ns) IN
    [id \in nodeIds |->
        Cardinality({i \in 1..Len(es) :
            es[i].target = id /\ es[i].source \in nodeIds /\ es[i].target \in nodeIds})]

\* "Remove current group and update in-degrees": the two nested for loops.
RECURSIVE removeNeighbors(_, _, _, _)
removeNeighbors(neighbors, i, remaining, inDegree) ==
    IF i > Len(neighbors) THEN inDegree
    ELSE removeNeighbors(neighbors, i + 1, remaining,
            IF neighbors[i] \in remaining
            THEN [inDegree EXCEPT ![neighbors[i]] = @ - 1]
            ELSE inDegree)

RECURSIVE removeGroup(_, _, _, _, _)
removeGroup(adj, currentGroup, i, remaining, inDegree) ==
    IF i > Len(currentGroup) THEN [remaining |-> remaining, inDegree |-> inDegree]
    ELSE LET rem1 == remaining \ {currentGroup[i]} IN
         removeGroup(adj, currentGroup, i + 1, rem1,
                     removeNeighbors(adj[currentGroup[i]], 1, rem1, inDegree))

\* Variant of groupsLoop: emits one zero-in-degree node per wave.
RECURSIVE groupsLoop_oneAtATime(_, _, _, _, _)
groupsLoop_oneAtATime(ns, adj, remaining, inDegree, groups) ==
    IF remaining = {} THEN groups
    ELSE LET ready == SelectSeq(ns, LAMBDA id : id \in remaining /\ inDegree[id] = 0) IN
         IF Len(ready) = 0 THEN groups
         ELSE LET currentGroup == <<Head(ready)>>
                  r == removeGroup(adj, currentGroup, 1, remaining, inDegree)
              IN groupsLoop_oneAtATime(ns, adj, r.remaining, r.inDegree,
                                       Append(groups, currentGroup))

\* The while loop of getParallelGroups; remaining is iterated in node order.
RECURSIVE groupsLoop(_, _, _, _, _)
groupsLoop(ns, adj, remaining, inDegree, groups) ==
    IF remaining = {} THEN groups
    ELSE LET currentGroup == SelectSeq(ns, LAMBDA id : id \in remaining /\ inDegree[id] = 0) IN
         IF Len(currentGroup) = 0 THEN groups
         ELSE LET r == removeGroup(adj, currentGroup, 1, remaining, inDegree) IN
              groupsLoop(ns, adj, r.remaining, r.inDegree, Append(groups, currentGroup))

getParallelGroups(ns, es) ==
    groupsLoop(ns, adjacencyList(ns, es), Range(ns), inDegreeInit(ns, es), <<>>)

\* BFS of getUpstreamNodes; returns the visited set without nodeId.
RECURSIVE upstreamLoop(_, _, _)
upstreamLoop(rev, queue, visited) ==
    IF Len(queue) = 0 THEN visited
    ELSE LET current == Head(queue) IN
         IF current \in visited THEN upstreamLoop(rev, Tail(queue), visited)
         ELSE LET vis1 == visited \cup {current}
                  parents == IF current \in DOMAIN rev THEN rev[current] ELSE <<>>
              IN upstreamLoop(rev,
                     Tail(queue) \o SelectSeq(parents, LAMBDA p : p \notin vis1), vis1)

\* Variant of getUpstreamNodes: direct parents only.
getUpstreamNodes_directOnly(nodeId, ns, es) ==
    LET rev == reverseAdjacency(ns, es) IN
    (IF nodeId \in DOMAIN rev THEN Range(rev[nodeId]) ELSE {}) \ {nodeId}

getUpstreamNodes(nodeId, ns, es) ==
    upstreamLoop(reverseAdjacency(ns, es), <<nodeId>>, {}) \ {nodeId}

getExecutionSubgraph(selectedNodeIds, ns, es) ==
    LET allRequired == Range(selectedNodeIds) \cup
            UNION {getUpstreamNodes(selectedNodeIds[i], ns, es) : i \in 1..Len(selectedNodeIds)}
    IN [nodes |-> SelectSeq(ns, LAMBDA id : id \in allRequired),
        edges |-> SelectSeq(es, LAMBDA e : e.source \in allRequired /\ e.target \in allRequired)]

\* ------------------------------------------- the DAG functions on their own
NoValidation == [valid |-> FALSE, error |-> "none"]

IdleRun ==
    /\ runStatus = "NONE"
    /\ nodeLog = [id \in {} |-> "NONE"]
    /\ enginePc = "idle"
    /\ groupIndex = 0
    /\ taskPc = [id \in {} |-> "idle"]
    /\ outputs = {}
    /\ outputWrites = [id \in {} |-> 0]
    /\ upstreamData = [id \in {} |-> {}]
    /\ executions = [id \in {} |-> 0]
    /\ executorResult = [id \in {} |-> "none"]
    /\ logOutput = [id \in {} |-> FALSE]
    /\ logError = [id \in {} |-> ""]
    /\ delPc = "idle"
    /\ existing = "NONE"
    /\ deletes = 0

\* No frame extraction has been invoked.
IdleMedia ==
    /\ impl = "execution"
    /\ maxBytes = 1
    /\ contentLength = -1
    /\ body = <<>>
    /\ mediaPc = "idle"
    /\ dlResult = "pending"
    /\ downloaded = 0
    /\ written = 0
    /\ reads = 0
    /\ fileStream = "unopened"
    /\ readerCancelled = FALSE
    /\ needDrain = FALSE
    /\ buffered = FALSE
    /\ aborted = FALSE
    /\ timer = "unset"
    /\ duration = -1
    /\ mediaError = ""
    /\ videoInput = "http"
    /\ timestamp = <<"5", "0", "%">>
    /\ uniqueId = 0
    /\ dirs = {}
    /\ tmpDir = "none"
    /\ probeOutput = "none"
    /\ seek = <<>>
    /\ exitCode = -1
    /\ frameFile = FALSE
    /\ frameResult = "pending"

\* No crop has been invoked.
IdleCrop ==
    /\ cropImpl = "execution"
    /\ imgWidth = 1
    /\ imgHeight = 1
    /\ xPercent = 0
    /\ yPercent = 0
    /\ widthPercent = 100
    /\ heightPercent = 100
    /\ region = <<>>

\* No inference node has been invoked.
IdleLLM ==
    /\ groqKey = TRUE
    /\ hfKey = TRUE
    /\ upstreamOutputs = <<>>
    /\ llmPc = "idle"
    /\ reply = <<>>
    /\ intent = "none"
    /\ calls = <<>>
    /\ llmResult = "pending"
    /\ llmError = ""

\* The snapshot pushHistory takes of the given nodes and edges.
Snapshot(ns, es) == [nodes |-> ns, edges |-> es]

NoOp == [name |-> "none", args |-> <<>>, done |-> FALSE]
NoEdit == [before |-> Snapshot(<<>>, <<>>), after |-> Snapshot(<<>>, <<>>)]

\* The store as create() builds it, no action called.
IdleStore ==
    /\ workflowId = "null"
    /\ history = <<>>
    /\ historyIndex = -1
    /\ lastOp = NoOp
    /\ prevOp = [name |-> "none", done |-> FALSE]
    /\ lastEdit = NoEdit
    /\ steps = 0

\* No node execution was requested from the editor.
IdleClient ==
    /\ isExecuting = FALSE
    /\ currentRunId = 0
    /\ pollPc = <<>>
    /\ runRecords = <<>>
    /\ engineOver = <<>>
    /\ delRead = <<>>
    /\ runDeletes = 0
    /\ lastSeen = <<>>

\* The editor page is not open.
IdleEditor == IdleStore /\ IdleClient

InitDag ==
    /\ \E n \in 0..MaxNodes : nodes = NodeArray(n)
    /\ edges \in EdgeArrays(IDs, MaxEdges)
    /\ scope = "FULL"
    /\ selectedNodes = <<>>
    /\ nodeTypes = [id \in Range(nodes) |-> "imageUploadNode"]
    /\ nodeData = [id \in Range(nodes) |-> "unread"]
    /\ pc = "input"
    /\ validation = NoValidation
    /\ nodesToExecute = <<>>
    /\ edgesToExecute = <<>>
    /\ parallelGroups = <<>>
    /\ IdleRun
    /\ IdleMedia
    /\ IdleCrop
    /\ IdleLLM
    /\ IdleEditor

DagValidate ==
    /\ pc = "input"
    /\ validation' = validateDAG(nodes, edges)
    /\ pc' = "validated"
    /\ UNCHANGED <<executorVars, mediaVars, requestVars, nodesToExecute, edgesToExecute, parallelGroups,
                   runVars, deleteVars>>

DagGroups ==
    /\ pc = "validated"
    /\ validation.valid
    /\ parallelGroups' = getParallelGroups(nodes, edges)
    /\ pc' = "grouped"
    /\ UNCHANGED <<executorVars, mediaVars, requestVars, validation, nodesToExecute, edgesToExecute,
                   runVars, deleteVars>>

DagSubgraph ==
    /\ pc = "validated"
    /\ validation.valid
    /\ \E sel \in SelArrays(IDs, MaxSel) :
          LET subgraph == getExecutionSubgraph(sel, nodes, edges) IN
          /\ selectedNodes' = sel
          /\ scope' = "PARTIAL"
          /\ nodesToExecute' = subgraph.nodes
          /\ edgesToExecute' = subgraph.edges
    /\ pc' = "subgraphed"
    /\ UNCHANGED <<executorVars, mediaVars, nodes, edges, nodeTypes, nodeData, validation,
                   parallelGroups, runVars, deleteVars>>

NextDag == DagValidate \/ DagGroups \/ DagSubgraph

SpecDag == InitDag /\ [][NextDag]_vars

\* The diamond 1->2, 1->3, 2->4, 3->4.
Diamond ==
    <<[source |-> 1, target |-> 2], [source |-> 1, target |-> 3],
      [source |-> 2, target |-> 4], [source |-> 3, target |-> 4]>>

\* --------------------------------- POST /api/runs (src/app/api/runs/route.ts)
\* The node types executeNode's switch has a case for.
KnownNodeTypes ==
    {"textNode", "imageUploadNode", "cropImageNode", "videoUploadNode",
     "extractFrameNode", "llmNode"}

\* The node types of the requests: the known ones and one the switch has no
\* case for (POST stores node.data.type without looking at it).
NodeTypes == KnownNodeTypes \cup {"noteNode"}

\* Every node an upload node: its executor succeeds or throws depending on
\* node.data, which the requests leave open.
Uploads(n) == [id \in 1..n |-> "imageUploadNode"]

\* The request body is one of: a graph of arbitrary shape over upload nodes,
\* run in full or from selected nodes; the diamond; a typing of a two-node
\* graph with at most one edge.
RunRequest(n, es, sc, sel, ty) ==
    /\ nodes = NodeArray(n)
    /\ edges = es
    /\ scope = sc
    /\ selectedNodes = sel
    /\ nodeTypes = ty
    /\ nodeData = [id \in 1..n |-> "unread"]

RunRequests ==
    \/ \E n \in 0..MaxRunNodes : \E es \in EdgeArrays(RunIDs, MaxRunEdges) :
          RunRequest(n, es, "FULL", <<>>, Uploads(n))
    \/ \E n \in 0..MaxRunNodes : \E es \in EdgeArrays(RunIDs, MaxRunEdges) :
       \E sel \in SelArrays(RunIDs, MaxRunSel) :
          RunRequest(n, es, "PARTIAL", sel, Uploads(n))
    \/ RunRequest(4, Diamond, "FULL", <<>>, Uploads(4))
    \/ \E es \in EdgeArrays(1..2, 1) : \E ty \in [1..2 -> NodeTypes] :
          RunRequest(2, es, "FULL", <<>>, ty)

Init ==
    /\ RunRequests
    /\ pc = "input"
    /\ validation = NoValidation
    /\ nodesToExecute = <<>>
    /\ edgesToExecute = <<>>
    /\ parallelGroups = <<>>
    /\ IdleRun
    /\ IdleMedia
    /\ IdleCrop
    /\ IdleLLM
    /\ IdleEditor

\* group.map(async (nodeId) => ...) up to its first await: every node of the
\* wave has issued updateNodeLog(RUNNING).
StartGroup(tp, group) ==
    [id \in DOMAIN tp |-> IF id \in Range(group) THEN "markRunning" ELSE tp[id]]

POST ==
    /\ pc = "input"
    /\ validation' = validateDAG(nodes, edges)
    /\ IF ~validation'.valid
       THEN /\ pc' = "rejected"
            /\ UNCHANGED <<nodesToExecute, edgesToExecute, parallelGroups, runVars>>
       ELSE LET subgraph == IF scope # "FULL" /\ Len(selectedNodes) > 0
                            THEN getExecutionSubgraph(selectedNodes, nodes, edges)
                            ELSE [nodes |-> nodes, edges |-> edges]
                groups == getParallelGroups(subgraph.nodes, subgraph.edges)
                ids == Range(subgraph.nodes)
            IN /\ pc' = "started"
               /\ nodesToExecute' = subgraph.nodes
               /\ edgesToExecute' = subgraph.edges
               /\ parallelGroups' = groups
               /\ runStatus' = "RUNNING"
               /\ nodeLog' = [id \in ids |-> "PENDING"]
               /\ outputs' = {}
               /\ outputWrites' = [id \in ids |-> 0]
               /\ upstreamData' = [id \in ids |-> {}]
               /\ executions' = [id \in ids |-> 0]
               /\ executorResult' = [id \in ids |-> "none"]
               /\ logOutput' = [id \in ids |-> FALSE]
               /\ logError' = [id \in ids |-> ""]
               /\ IF Len(groups) = 0
                  THEN /\ enginePc' = "completing"
                       /\ groupIndex' = 0
                       /\ taskPc' = [id \in ids |-> "idle"]
                  ELSE /\ enginePc' = "await"
                       /\ groupIndex' = 1
                       /\ taskPc' = StartGroup([id \in ids |-> "idle"], groups[1])
    /\ UNCHANGED <<executorVars, mediaVars, requestVars, deleteVars>>

\* ------------------------------------- executeWorkflowNodes (lib/execution)
\* prisma.nodeLog.updateMany({where: {runId, nodeId}, data: {status}}): changes
\* the row when it exists, no row otherwise.
updateNodeLog(log, id, status) ==
    IF log[id] = "NONE" THEN log ELSE [log EXCEPT ![id] = status]

\* The same updateMany on the output or error column: a value that is not
\* undefined is stored when the row exists.
updateColumn(column, id, value) ==
    IF nodeLog[id] = "NONE" THEN column ELSE [column EXCEPT ![id] = value]

\* Variant of MarkRunning: the RUNNING status is never written.
MarkRunning_noLog(id) ==
    /\ taskPc[id] = "markRunning"
    /\ upstreamData' = [upstreamData EXCEPT ![id] =
            {edgesToExecute[i].source : i \in {j \in 1..Len(edgesToExecute) :
                edgesToExecute[j].target = id /\ edgesToExecute[j].source \in outputs}}]
    /\ executions' = [executions EXCEPT ![id] = @ + 1]
    /\ taskPc' = [taskPc EXCEPT ![id] = "executing"]
    /\ UNCHANGED <<executorVars, mediaVars, requestVars, pc, validation, nodesToExecute, edgesToExecute,
                   parallelGroups, runStatus, nodeLog, enginePc, groupIndex, outputs,
                   outputWrites, executorResult, logOutput, logError, deleteVars>>

\* updateNodeLog(RUNNING) has returned: upstream outputs are read and
\* executeNode is invoked.
MarkRunning(id) ==
    /\ taskPc[id] = "markRunning"
    /\ nodeLog' = updateNodeLog(nodeLog, id, "RUNNING")
    /\ upstreamData' = [upstreamData EXCEPT ![id] =
            {edgesToExecute[i].source : i \in {j \in 1..Len(edgesToExecute) :
                edgesToExecute[j].target = id /\ edgesToExecute[j].source \in outputs}}]
    /\ executions' = [executions EXCEPT ![id] = @ + 1]
    /\ taskPc' = [taskPc EXCEPT ![id] = "executing"]
    /\ UNCHANGED <<executorVars, mediaVars, requestVars, pc, validation, nodesToExecute, edgesToExecute,
                   parallelGroups, runStatus, enginePc, groupIndex, outputs,
                   outputWrites, executorResult, logOutput, logError, deleteVars>>

\* Messages of the errors the executors throw.
NoImageUploadedError == "No image uploaded"
NoImageInputError == "No image input connected"
InvalidImageInputError == "Invalid image input"

NoVideoUploadedError == "No video uploaded"
NoVideoInputError == "No video input connected"
InvalidVideoError == "Invalid video file"
GroqKeyError == "GROQ_API_KEY is not configured. Please set it in your .env file."
NoInputsError == "No inputs provided to LLM node"
CompletionFailedError == "chat completion failed"
UnknownNodeTypeError == "Unknown node type"

\* The configured literal or reference of a node (userMessage, imageUrl,
\* videoUrl): absent, the empty string, or a value.
NodeData == {"absent", "empty", "value"}

\* executeTextNode returns node.data.userMessage or '': it never throws.
executeTextNode(data) == {"ok"}

\* executeImageUploadNode returns node.data.imageUrl, throws when it is
\* absent or empty.
executeImageUploadNode(data) ==
    IF data = "value" THEN {"ok"} ELSE {NoImageUploadedError}

\* executeVideoUploadNode returns node.data.videoUrl, throws when it is
\* absent or empty.
executeVideoUploadNode(data) ==
    IF data = "value" THEN {"ok"} ELSE {NoVideoUploadedError}

\* Variant of executeCropImageNode: the upstream image is not checked.
executeCropImageNode_unchecked(upstream) == {"ok", InvalidImageInputError}

\* executeCropImageNode throws when upstreamData[0]?.output is falsy: always
\* without a defined upstream output, and for an empty one otherwise; past
\* that check it returns the cropped image or throws on the image itself.
executeCropImageNode(upstream) ==
    IF upstream = {}
    THEN {NoImageInputError}
    ELSE {"ok", NoImageInputError, InvalidImageInputError}

\* executeExtractFrameNode throws when upstreamData[0]?.output is falsy; past
\* that check it returns the frame or throws on the video.
executeExtractFrameNode(upstream) ==
    IF upstream = {}
    THEN {NoVideoInputError}
    ELSE {"ok", NoVideoInputError, InvalidVideoError}

\* executeLLMNode throws without the key and without a text among the
\* upstream outputs; past those checks it returns the reply or throws when
\* the completion fails.
executeLLMNode(upstream) ==
    IF upstream = {}
    THEN {GroqKeyError, NoInputsError}
    ELSE {"ok", GroqKeyError, NoInputsError, CompletionFailedError}

\* Variant of executeNode: the switch's default returns undefined.
executeNode_silentDefault(nodeType, data, upstream) ==
    CASE nodeType = "textNode" -> executeTextNode(data)
      [] nodeType = "imageUploadNode" -> executeImageUploadNode(data)
      [] nodeType = "cropImageNode" -> executeCropImageNode(upstream)
      [] nodeType = "videoUploadNode" -> executeVideoUploadNode(data)
      [] nodeType = "extractFrameNode" -> executeExtractFrameNode(upstream)
      [] nodeType = "llmNode" -> executeLLMNode(upstream)
      [] OTHER -> {"ok"}

\* executeNode: the outcomes ("ok" or the message thrown) of a node of the
\* given type whose defined upstream outputs come from the given sources.
executeNode(nodeType, data, upstream) ==
    CASE nodeType = "textNode" -> executeTextNode(data)
      [] nodeType = "imageUploadNode" -> executeImageUploadNode(data)
      [] nodeType = "cropImageNode" -> executeCropImageNode(upstream)
      [] nodeType = "videoUploadNode" -> executeVideoUploadNode(data)
      [] nodeType = "extractFrameNode" -> executeExtractFrameNode(upstream)
      [] nodeType = "llmNode" -> executeLLMNode(upstream)
      [] OTHER -> {UnknownNodeTypeError}

\* The configured values the executor of a node type can find in node.data:
\* the passthrough executors read a literal or reference from it, the others
\* none.
NodeDataOf(nodeType) ==
    IF nodeType \in {"textNode", "imageUploadNode", "videoUploadNode"}
    THEN NodeData
    ELSE {"unread"}

\* Variant of ExecutorSettles: context.outputs.set runs on a throw as well.
ExecutorSettles_setsOnFailure(id) ==
    /\ taskPc[id] = "executing"
    /\ outputs' = outputs \cup {id}
    /\ outputWrites' = [outputWrites EXCEPT ![id] = @ + 1]
    /\ \E data \in NodeDataOf(nodeTypes[id]) :
       \E r \in executeNode(nodeTypes[id], data, upstreamData[id]) :
          /\ nodeData' = [nodeData EXCEPT ![id] = data]
          /\ executorResult' = [executorResult EXCEPT ![id] = r]
          /\ taskPc' = [taskPc EXCEPT ![id] =
                            IF r = "ok" THEN "writeSuccess" ELSE "writeFailed"]
    /\ UNCHANGED <<executorVars, mediaVars, nodes, edges, scope, selectedNodes, nodeTypes,
                   pc, validation, nodesToExecute, edgesToExecute, parallelGroups,
                   runStatus, nodeLog, enginePc, groupIndex, upstreamData, executions,
                   logOutput, logError, deleteVars>>

\* executeNode has settled: on success context.outputs.set and
\* updateNodeLog(SUCCESS) is issued, on a throw updateNodeLog(FAILED).
ExecutorSettles(id) ==
    /\ taskPc[id] = "executing"
    /\ \E data \in NodeDataOf(nodeTypes[id]) :
       \E r \in executeNode(nodeTypes[id], data, upstreamData[id]) :
          /\ nodeData' = [nodeData EXCEPT ![id] = data]
          /\ executorResult' = [executorResult EXCEPT ![id] = r]
          /\ IF r = "ok"
             THEN /\ outputs' = outputs \cup {id}
                  /\ outputWrites' = [outputWrites EXCEPT ![id] = @ + 1]
                  /\ taskPc' = [taskPc EXCEPT ![id] = "writeSuccess"]
             ELSE /\ taskPc' = [taskPc EXCEPT ![id] = "writeFailed"]
                  /\ UNCHANGED <<outputs, outputWrites>>
    /\ UNCHANGED <<executorVars, mediaVars, nodes, edges, scope, selectedNodes, nodeTypes,
                   pc, validation, nodesToExecute, edgesToExecute, parallelGroups,
                   runStatus, nodeLog, enginePc, groupIndex, upstreamData, executions,
                   logOutput, logError, deleteVars>>

\* Variant of GroupResolved: the wave counts as done on its first resolved
\* callback (Promise.race in place of Promise.all).
GroupResolved_any(tp) ==
    \E id \in Range(parallelGroups[groupIndex]) : tp[id] = "resolved"

\* Promise.all over the wave has resolved: the for loop goes on.
GroupResolved(tp) ==
    \A id \in Range(parallelGroups[groupIndex]) : tp[id] = "resolved"

\* updateNodeLog(SUCCESS) has returned: the node's callback resolves; when it
\* was the last of its wave, the engine starts the next wave or leaves the loop.
LogSuccess(id) ==
    /\ taskPc[id] = "writeSuccess"
    /\ nodeLog' = updateNodeLog(nodeLog, id, "SUCCESS")
    /\ logOutput' = updateColumn(logOutput, id, TRUE)
    /\ LET tp == [taskPc EXCEPT ![id] = "resolved"] IN
       IF enginePc = "await" /\ GroupResolved(tp)
       THEN IF groupIndex < Len(parallelGroups)
            THEN /\ groupIndex' = groupIndex + 1
                 /\ taskPc' = StartGroup(tp, parallelGroups[groupIndex + 1])
                 /\ UNCHANGED enginePc
            ELSE /\ enginePc' = "completing"
                 /\ taskPc' = tp
                 /\ UNCHANGED groupIndex
       ELSE /\ taskPc' = tp
            /\ UNCHANGED <<enginePc, groupIndex>>
    /\ UNCHANGED <<executorVars, mediaVars, requestVars, pc, validation, nodesToExecute, edgesToExecute,
                   parallelGroups, runStatus, outputs, outputWrites, upstreamData,
                   executions, executorResult, logError, deleteVars>>

\* Variant of LogFailed: the error is logged but not rethrown, the callback
\* resolves.
LogFailed_swallow(id) ==
    /\ taskPc[id] = "writeFailed"
    /\ nodeLog' = updateNodeLog(nodeLog, id, "FAILED")
    /\ logError' = updateColumn(logError, id, executorResult[id])
    /\ LET tp == [taskPc EXCEPT ![id] = "resolved"] IN
       IF enginePc = "await" /\ GroupResolved(tp)
       THEN IF groupIndex < Len(parallelGroups)
            THEN /\ groupIndex' = groupIndex + 1
                 /\ taskPc' = StartGroup(tp, parallelGroups[groupIndex + 1])
                 /\ UNCHANGED enginePc
            ELSE /\ enginePc' = "completing"
                 /\ taskPc' = tp
                 /\ UNCHANGED groupIndex
       ELSE /\ taskPc' = tp
            /\ UNCHANGED <<enginePc, groupIndex>>
    /\ UNCHANGED <<executorVars, mediaVars, requestVars, pc, validation, nodesToExecute, edgesToExecute,
                   parallelGroups, runStatus, outputs, outputWrites, upstreamData,
                   executions, executorResult, logOutput, deleteVars>>

\* updateNodeLog(FAILED) has returned and the error is rethrown: Promise.all
\* rejects on the first rejection and the engine enters its catch block.
LogFailed(id) ==
    /\ taskPc[id] = "writeFailed"
    /\ nodeLog' = updateNodeLog(nodeLog, id, "FAILED")
    /\ logError' = updateColumn(logError, id, executorResult[id])
    /\ taskPc' = [taskPc EXCEPT ![id] = "rejected"]
    /\ enginePc' = IF enginePc = "await" THEN "failing" ELSE enginePc
    /\ UNCHANGED <<executorVars, mediaVars, requestVars, pc, validation, nodesToExecute, edgesToExecute,
                   parallelGroups, runStatus, groupIndex, outputs, outputWrites,
                   upstreamData, executions, executorResult, logOutput, deleteVars>>

\* getRunStartTime, then prisma.run.update({status: 'COMPLETED'}); the update
\* throws when the row is gone, which lands in the catch block.
RunCompleted ==
    /\ enginePc = "completing"
    /\ IF runStatus = "NONE"
       THEN /\ enginePc' = "failing"
            /\ UNCHANGED runStatus
       ELSE /\ enginePc' = "done"
            /\ runStatus' = "COMPLETED"
    /\ UNCHANGED <<executorVars, mediaVars, requestVars, pc, validation, nodesToExecute, edgesToExecute,
                   parallelGroups, nodeLog, groupIndex, taskPc, outputs, outputWrites,
                   upstreamData, executions, executorResult, logOutput, logError,
                   deleteVars>>

\* Variant of RunFailed: the catch block also marks every node log that is
\* still PENDING as SKIPPED.
RunFailed_marksSkipped ==
    /\ enginePc = "failing"
    /\ enginePc' = "done"
    /\ runStatus' = IF runStatus = "NONE" THEN "NONE" ELSE "FAILED"
    /\ nodeLog' = [id \in DOMAIN nodeLog |->
                      IF nodeLog[id] = "PENDING" THEN "SKIPPED" ELSE nodeLog[id]]
    /\ UNCHANGED <<executorVars, mediaVars, requestVars, pc, validation, nodesToExecute, edgesToExecute,
                   parallelGroups, groupIndex, taskPc, outputs, outputWrites,
                   upstreamData, executions, executorResult, logOutput, logError,
                   deleteVars>>

\* Variant of RunFailed: the catch block logs the error and writes nothing.
RunFailed_logsOnly ==
    /\ enginePc = "failing"
    /\ enginePc' = "done"
    /\ UNCHANGED <<executorVars, mediaVars, requestVars, pc, validation, nodesToExecute, edgesToExecute,
                   parallelGroups, runStatus, nodeLog, groupIndex, taskPc, outputs, outputWrites,
                   upstreamData, executions, executorResult, logOutput, logError,
                   deleteVars>>

\* catch (error): prisma.run.update({status: 'FAILED'}).
RunFailed ==
    /\ enginePc = "failing"
    /\ enginePc' = "done"
    /\ runStatus' = IF runStatus = "NONE" THEN "NONE" ELSE "FAILED"
    /\ UNCHANGED <<executorVars, mediaVars, requestVars, pc, validation, nodesToExecute, edgesToExecute,
                   parallelGroups, nodeLog, groupIndex, taskPc, outputs, outputWrites,
                   upstreamData, executions, executorResult, logOutput, logError,
                   deleteVars>>

\* --------------------- DELETE /api/runs/[id] (src/app/api/runs/[id]/route.ts)
\* prisma.run.findFirst: 404 when the row is absent.
DeleteFind ==
    /\ pc = "started"
    /\ delPc = "idle"
    /\ deletes < MaxDeletes
    /\ deletes' = deletes + 1
    /\ IF runStatus = "NONE"
       THEN UNCHANGED <<delPc, existing>>
       ELSE /\ delPc' = "found"
            /\ existing' = runStatus
    /\ UNCHANGED <<executorVars, mediaVars, requestVars, pc, validation, nodesToExecute, edgesToExecute,
                   parallelGroups, runVars>>

\* Variant of DeleteApply: cancelling also marks the RUNNING node logs FAILED.
DeleteApply_abortsNodes ==
    /\ delPc = "found"
    /\ delPc' = "idle"
    /\ IF runStatus = "NONE"
       THEN UNCHANGED <<runStatus, nodeLog, logOutput, logError>>
       ELSE IF existing \in {"RUNNING", "PENDING"}
            THEN /\ runStatus' = "CANCELLED"
                 /\ nodeLog' = [id \in DOMAIN nodeLog |->
                                   IF nodeLog[id] = "RUNNING" THEN "FAILED" ELSE nodeLog[id]]
                 /\ UNCHANGED <<logOutput, logError>>
            ELSE /\ runStatus' = "NONE"
                 /\ nodeLog' = [id \in DOMAIN nodeLog |-> "NONE"]
                 /\ logOutput' = [id \in DOMAIN nodeLog |-> FALSE]
                 /\ logError' = [id \in DOMAIN nodeLog |-> ""]
    /\ UNCHANGED <<executorVars, mediaVars, requestVars, pc, validation, nodesToExecute, edgesToExecute,
                   parallelGroups, enginePc, groupIndex, taskPc, outputs, outputWrites,
                   upstreamData, executions, executorResult, existing, deletes>>

\* RUNNING or PENDING when read: update to CANCELLED; otherwise delete the
\* row, which cascades to its NodeLog rows.
DeleteApply ==
    /\ delPc = "found"
    /\ delPc' = "idle"
    /\ IF runStatus = "NONE"
       THEN UNCHANGED <<runStatus, nodeLog, logOutput, logError>>
       ELSE IF existing \in {"RUNNING", "PENDING"}
            THEN /\ runStatus' = "CANCELLED"
                 /\ UNCHANGED <<nodeLog, logOutput, logError>>
            ELSE /\ runStatus' = "NONE"
                 /\ nodeLog' = [id \in DOMAIN nodeLog |-> "NONE"]
                 /\ logOutput' = [id \in DOMAIN nodeLog |-> FALSE]
                 /\ logError' = [id \in DOMAIN nodeLog |-> ""]
    /\ UNCHANGED <<executorVars, mediaVars, requestVars, pc, validation, nodesToExecute, edgesToExecute,
                   parallelGroups, enginePc, groupIndex, taskPc, outputs, outputWrites,
                   upstreamData, executions, executorResult, existing, deletes>>

Next ==
    \/ POST
    \/ \E id \in DOMAIN taskPc : MarkRunning(id)
    \/ \E id \in DOMAIN taskPc : ExecutorSettles(id)
    \/ \E id \in DOMAIN taskPc : LogSuccess(id)
    \/ \E id \in DOMAIN taskPc : LogFailed(id)
    \/ RunCompleted
    \/ RunFailed
    \/ DeleteFind
    \/ DeleteApply

Spec == Init /\ [][Next]_vars

\* ------------------- executeWorkflowNodes with log writes that throw
\* Message of the error a log write throws.
LogWriteError == "log write failed"

\* updateNodeLog(RUNNING) throws: it is awaited outside the callback's try, so
\* the callback rejects and Promise.all with it.
MarkRunningThrows(id) ==
    /\ taskPc[id] = "markRunning"
    /\ taskPc' = [taskPc EXCEPT ![id] = "rejected"]
    /\ enginePc' = IF enginePc = "await" THEN "failing" ELSE enginePc
    /\ UNCHANGED <<executorVars, mediaVars, requestVars, pc, validation, nodesToExecute, edgesToExecute,
                   parallelGroups, runStatus, nodeLog, groupIndex, outputs, outputWrites,
                   upstreamData, executions, executorResult, logOutput, logError, deleteVars>>

\* updateNodeLog(SUCCESS) throws inside the try: the callback's catch block
\* takes over with that error.
LogSuccessThrows(id) ==
    /\ taskPc[id] = "writeSuccess"
    /\ taskPc' = [taskPc EXCEPT ![id] = "writeFailedLog"]
    /\ UNCHANGED <<executorVars, mediaVars, requestVars, pc, validation, nodesToExecute, edgesToExecute,
                   parallelGroups, runStatus, nodeLog, enginePc, groupIndex, outputs,
                   outputWrites, upstreamData, executions, executorResult, logOutput,
                   logError, deleteVars>>

\* The catch block after a SUCCESS write that threw: updateNodeLog(FAILED)
\* with the write's message returns and the error is rethrown.
LogFailedAfterWrite(id) ==
    /\ taskPc[id] = "writeFailedLog"
    /\ nodeLog' = updateNodeLog(nodeLog, id, "FAILED")
    /\ logError' = updateColumn(logError, id, LogWriteError)
    /\ taskPc' = [taskPc EXCEPT ![id] = "rejected"]
    /\ enginePc' = IF enginePc = "await" THEN "failing" ELSE enginePc
    /\ UNCHANGED <<executorVars, mediaVars, requestVars, pc, validation, nodesToExecute, edgesToExecute,
                   parallelGroups, runStatus, groupIndex, outputs, outputWrites,
                   upstreamData, executions, executorResult, logOutput, deleteVars>>

\* updateNodeLog(FAILED) throws in the catch block: the callback rejects with
\* the write's error.
LogFailedThrows(id) ==
    /\ taskPc[id] \in {"writeFailed", "writeFailedLog"}
    /\ taskPc' = [taskPc EXCEPT ![id] = "rejected"]
    /\ enginePc' = IF enginePc = "await" THEN "failing" ELSE enginePc
    /\ UNCHANGED <<executorVars, mediaVars, requestVars, pc, validation, nodesToExecute, edgesToExecute,
                   parallelGroups, runStatus, nodeLog, groupIndex, outputs, outputWrites,
                   upstreamData, executions, executorResult, logOutput, logError, deleteVars>>

\* getRunStartTime or the COMPLETED update throws: the engine's catch block
\* takes over.
RunCompletedThrows ==
    /\ enginePc = "completing"
    /\ enginePc' = "failing"
    /\ UNCHANGED <<executorVars, mediaVars, requestVars, pc, validation, nodesToExecute, edgesToExecute,
                   parallelGroups, runStatus, nodeLog, groupIndex, taskPc, outputs, outputWrites,
                   upstreamData, executions, executorResult, logOutput, logError,
                   deleteVars>>

\* A step of the engine or of one of its callbacks: a call it awaits returns
\* or throws.
EngineStep ==
    \/ \E id \in DOMAIN taskPc : MarkRunning(id)
    \/ \E id \in DOMAIN taskPc : MarkRunningThrows(id)
    \/ \E id \in DOMAIN taskPc : ExecutorSettles(id)
    \/ \E id \in DOMAIN taskPc : LogSuccess(id)
    \/ \E id \in DOMAIN taskPc : LogSuccessThrows(id)
    \/ \E id \in DOMAIN taskPc : LogFailed(id)
    \/ \E id \in DOMAIN taskPc : LogFailedAfterWrite(id)
    \/ \E id \in DOMAIN taskPc : LogFailedThrows(id)
    \/ RunCompleted
    \/ RunCompletedThrows
    \/ RunFailed

NextLive ==
    \/ POST
    \/ EngineStep
    \/ DeleteFind
    \/ DeleteApply

\* The request bodies that run the submitted graph in full.
FullRequests ==
    \/ \E n \in 0..MaxRunNodes : \E es \in EdgeArrays(RunIDs, MaxRunEdges) :
          RunRequest(n, es, "FULL", <<>>, Uploads(n))
    \/ RunRequest(4, Diamond, "FULL", <<>>, Uploads(4))
    \/ \E es \in EdgeArrays(1..2, 1) : \E ty \in [1..2 -> NodeTypes] :
          RunRequest(2, es, "FULL", <<>>, ty)

InitLive ==
    /\ FullRequests
    /\ pc = "input"
    /\ validation = NoValidation
    /\ nodesToExecute = <<>>
    /\ edgesToExecute = <<>>
    /\ parallelGroups = <<>>
    /\ IdleRun
    /\ IdleMedia
    /\ IdleCrop
    /\ IdleLLM
    /\ IdleEditor

\* Every call the engine awaits returns or throws in the end; nothing is
\* assumed of the requests.
SpecLive == InitLive /\ [][NextLive]_vars /\ WF_vars(EngineStep)

\* ------------------- frame extraction I/O: downloadVideo, getVideoDuration,
\* ------------------- extractFrameParams (lib/execution and trigger/extract-frame)
\* The two frame extractors: executeExtractFrameNode of lib/execution and the
\* extract-frame task.
Impls == {"execution", "trigger"}

\* The chunk-length sequences a response body delivers.
Bodies == UNION {[1..n -> 1..MaxChunkLen] : n \in 0..MaxChunks}

FetchFailedError == "fetch failed"
DownloadFailedError == "Failed to download"
DeclaredTooLargeError == "Video size exceeds limit"
NoBodyError == "No response body"
TooLargeError(im) ==
    IF im = "execution" THEN "Video too large" ELSE "Download exceeded max size limit"
ReadFailedError == "read failed"
WriteFailedError == "write failed"
ProbeExitError == "ffprobe exited with code"
InvalidDurationError == "Invalid duration output from ffprobe"
ExtractExitError == "ffmpeg exited code"
TimedOutError == "killed on timeout"

\* The directory suffixes Math.random().toString(36).substring(7) yields.
Suffixes == 1..MaxSuffix

\* The 10.0 s clip, in hundredths of a second.
ClipLength == 1000

\* Durations a probe reports, in hundredths of a second.
Durations == (0..MaxDuration) \cup {ClipLength}

\* Upstream video references, by what the extractors test of them: absent;
\* a Cloudinary delivery URL (/upload/.../name.ext); a cloudinary.com URL of
\* another shape; a data: URL with and without base64 data; another http
\* URL; any other string.
VideoInputs ==
    {"none", "cloudinary", "cloudinaryOther", "data", "dataEmpty", "http", "other"}

\* Timestamp strings, as tuples of characters.
Timestamps ==
    { <<>>,
      <<"5", "0", "%">>, <<"1", "1", "0", "%">>, <<"1", "0", "0", "%">>,
      <<"0", "%">>, <<"-", "5", "%">>, <<"x", "%">>,
      <<"9", ".", "9", "5">>, <<"9", ".", "9", "5", "s">>, <<"5">>,
      <<"1", "2">>, <<"-", "1">>, <<"x">> }

\* The timestamp executeExtractFrameNode falls back to.
DefaultTimestamp == <<"5", "0", "%">>

\* An extraction of a remote video: any response to downloadVideo, the
\* default timestamp, no other invocation's directory around.
DownloadInputs ==
    /\ impl \in Impls
    /\ maxBytes \in 1..MaxCap
    /\ contentLength \in -1..MaxDeclared
    /\ body \in Bodies
    /\ videoInput = "http"
    /\ timestamp = DefaultTimestamp
    /\ dirs = {}

\* An extraction of any video reference at any timestamp, next to the temp
\* directories of other invocations for the same node or run; a remote video
\* is a one-chunk body within the cap.
FrameInputs ==
    /\ impl \in Impls
    /\ maxBytes = 1
    /\ contentLength = -1
    /\ body = <<1>>
    /\ videoInput \in VideoInputs
    /\ timestamp \in Timestamps
    /\ dirs \in SUBSET Suffixes

InitMedia ==
    /\ nodes = <<>>
    /\ edges = <<>>
    /\ scope = "FULL"
    /\ selectedNodes = <<>>
    /\ nodeTypes = <<>>
    /\ nodeData = <<>>
    /\ pc = "input"
    /\ validation = NoValidation
    /\ nodesToExecute = <<>>
    /\ edgesToExecute = <<>>
    /\ parallelGroups = <<>>
    /\ IdleRun
    /\ IdleCrop
    /\ IdleLLM
    /\ IdleEditor
    /\ DownloadInputs \/ FrameInputs
    /\ mediaPc = "idle"
    /\ dlResult = "pending"
    /\ downloaded = 0
    /\ written = 0
    /\ reads = 0
    /\ fileStream = "unopened"
    /\ readerCancelled = FALSE
    /\ needDrain = FALSE
    /\ buffered = FALSE
    /\ aborted = FALSE
    /\ timer = "unset"
    /\ duration = -1
    /\ mediaError = ""
    /\ uniqueId = 0
    /\ tmpDir = "none"
    /\ probeOutput = "none"
    /\ seek = <<>>
    /\ exitCode = -1
    /\ frameFile = FALSE
    /\ frameResult = "pending"

\* ---- numbers of the timestamp arithmetic: hundredths, NaN as a record
NaN == [nan |-> TRUE, value |-> 0]
Num(v) == [nan |-> FALSE, value |-> v]
isNaN(x) == x.nan

Digits == {"0", "1", "2", "3", "4", "5", "6", "7", "8", "9"}

DigitValue(c) ==
    CASE c = "0" -> 0 [] c = "1" -> 1 [] c = "2" -> 2 [] c = "3" -> 3 [] c = "4" -> 4
      [] c = "5" -> 5 [] c = "6" -> 6 [] c = "7" -> 7 [] c = "8" -> 8 [] c = "9" -> 9

\* Number of consecutive digits of s from position i on.
RECURSIVE DigitRun(_, _)
DigitRun(s, i) ==
    IF i <= Len(s) /\ s[i] \in Digits THEN 1 + DigitRun(s, i + 1) ELSE 0

\* Value of the n digits of s from position i on.
RECURSIVE DigitsValue(_, _, _)
DigitsValue(s, i, n) ==
    IF n = 0 THEN 0
    ELSE 10 * DigitsValue(s, i, n - 1) + DigitValue(s[i + n - 1])

\* parseFloat: an optional sign, digits, an optional point and digits; what
\* follows is ignored; NaN when there is no digit. The value is returned in
\* hundredths (the timestamps carry at most two decimals).
parseFloat(s) ==
    LET signed == Len(s) >= 1 /\ s[1] \in {"-", "+"}
        start == IF signed THEN 2 ELSE 1
        intLen == DigitRun(s, start)
        dot == start + intLen
        hasDot == dot <= Len(s) /\ s[dot] = "."
        fracLen == IF hasDot THEN DigitRun(s, dot + 1) ELSE 0
        frac == CASE fracLen = 0 -> 0
                  [] fracLen = 1 -> 10 * DigitValue(s[dot + 1])
                  [] OTHER -> DigitsValue(s, dot + 1, 2)
        magnitude == 100 * DigitsValue(s, start, intLen) + frac
    IN  IF intLen = 0 /\ fracLen = 0 THEN NaN
        ELSE Num(IF signed /\ s[1] = "-" THEN 0 - magnitude ELSE magnitude)

\* timestamp.endsWith(ch)
endsWith(s, ch) == Len(s) >= 1 /\ s[Len(s)] = ch

\* timestamp.replace(ch, ''): the first occurrence of ch is removed.
replace(s, ch) ==
    IF \E i \in 1..Len(s) : s[i] = ch
    THEN LET first == CHOOSE i \in 1..Len(s) :
                         s[i] = ch /\ \A j \in 1..(i - 1) : s[j] # ch
         IN  [k \in 1..(Len(s) - 1) |-> IF k < first THEN s[k] ELSE s[k + 1]]
    ELSE s

InvalidPercentageError == "Invalid percentage timestamp"
InvalidTimestampError == "Invalid timestamp"

\* The seek offset of both extractors, in microseconds, from the timestamp
\* and the duration in hundredths of a second: percent / 100 * duration for
\* a percentage within 0..100; an absolute timestamp as it is, or
\* duration - 0.1 when it is greater than the duration. lib/execution strips
\* an 's' before it parses the absolute timestamp.
seekSeconds(im, ts, dur) ==
    IF endsWith(ts, "%")
    THEN LET percent == parseFloat(replace(ts, "%")) IN
         IF isNaN(percent) \/ percent.value < 0 \/ percent.value > 10000
         THEN [valid |-> FALSE, value |-> 0, error |-> InvalidPercentageError]
         ELSE [valid |-> TRUE, value |-> percent.value * dur, error |-> ""]
    ELSE LET t == parseFloat(IF im = "execution" THEN replace(ts, "s") ELSE ts) IN
         IF isNaN(t) \/ t.value < 0
         THEN [valid |-> FALSE, value |-> 0, error |-> InvalidTimestampError]
         ELSE [valid |-> TRUE,
               value |-> IF t.value > dur THEN (dur - 10) * 10000 ELSE t.value * 10000,
               error |-> ""]

\* downloadVideo throws: its finally block clears the timer, the caller's
\* catch fails the extraction.
Reject(message) ==
    /\ dlResult' = "rejected"
    /\ mediaPc' = "rejected"
    /\ timer' = "cleared"
    /\ mediaError' = message

InvalidBase64Error == "Invalid base64 data URL"
InvalidVideoInputError == "Invalid video input"
InvalidVideoUrlError == "Invalid video URL provided."
TimestampRequiredError == "Timestamp is required."
NoOutputFileError == "Frame extraction failed - no output file produced"
ReadFrameError == "ENOENT"

\* (node.data?.timestamp as string) || '50%'
timestampOr(ts) == IF ts = <<>> THEN DefaultTimestamp ELSE ts

\* The extractor is called and runs up to its first await or its exit.
\* lib/execution: no upstream video throws; a Cloudinary delivery URL is
\* answered with getVideoFrameUrl(publicId, timestamp), which builds a URL
\* from parseFloat(timestamp) without validating it; otherwise the temp
\* directory weavy-extract-<node.id>-<uniqueId> is made, a data: URL is
\* written to it and the probe spawned, an http URL is handed to
\* downloadVideo, anything else throws inside the try block.
\* extract-frame task: a videoUrl that is absent or does not start with http,
\* or an empty timestamp, throws before the try block; otherwise the temp
\* directory extract-<runId>-<uniqueId> is made.
ExtractorCalled ==
    /\ mediaPc = "idle"
    /\ LET early == IF impl = "execution"
                    THEN CASE videoInput = "none" -> NoVideoInputError
                           [] videoInput = "cloudinary" -> "returned"
                           [] OTHER -> ""
                    ELSE IF videoInput \notin {"cloudinary", "cloudinaryOther", "http"}
                         THEN InvalidVideoUrlError
                         ELSE IF timestamp = <<>> THEN TimestampRequiredError ELSE ""
       IN  IF early # ""
           THEN /\ mediaPc' = "done"
                /\ frameResult' = IF early = "returned" THEN "returned" ELSE "threw"
                /\ mediaError' = IF early = "returned" THEN "" ELSE early
                /\ UNCHANGED <<uniqueId, tmpDir>>
           ELSE /\ \E u \in Suffixes : uniqueId' = u
                /\ tmpDir' = "created"
                /\ UNCHANGED frameResult
                /\ CASE videoInput = "data" ->
                            mediaPc' = "probe" /\ UNCHANGED mediaError
                     [] videoInput = "dataEmpty" ->
                            mediaPc' = "rejected" /\ mediaError' = InvalidBase64Error
                     [] videoInput = "other" ->
                            mediaPc' = "rejected" /\ mediaError' = InvalidVideoInputError
                     [] OTHER ->
                            mediaPc' = "download" /\ UNCHANGED mediaError
    /\ UNCHANGED <<executorVars, engineVars, mediaInput, frameInput, dlResult, downloaded, written,
                   reads, fileStream, readerCancelled, needDrain, buffered, aborted,
                   timer, duration, dirs, probeOutput, seek, exitCode, frameFile>>

\* downloadVideo is called: the abort timer is set and fetch is issued.
DownloadCall ==
    /\ mediaPc = "download"
    /\ mediaPc' = "fetch"
    /\ timer' = "armed"
    /\ UNCHANGED <<executorVars, engineVars, mediaInput, frameVars, dlResult, downloaded, written, reads,
                   fileStream, readerCancelled, needDrain, buffered, aborted,
                   duration, mediaError>>

\* setTimeout(() => controller.abort(), 60000) fires while downloadVideo runs.
DownloadTimeout ==
    /\ timer = "armed"
    /\ ~aborted
    /\ aborted' = TRUE
    /\ UNCHANGED <<executorVars, engineVars, mediaInput, frameVars, mediaPc, dlResult, downloaded, written,
                   reads, fileStream, readerCancelled, needDrain, buffered, timer,
                   duration, mediaError>>

\* The trigger task compares the declared content-length with maxBytes
\* before it opens the destination; lib/execution does not read the header.
declaredTooLarge(im, declared, cap) ==
    im = "trigger" /\ declared # -1 /\ declared # 0 /\ declared > cap

\* await fetch(...) settles, and the code up to the first reader.read() runs:
\* status check, (trigger) content-length check, body check, createWriteStream.
\* lib/execution opens the destination before it checks the body.
FetchSettles ==
    /\ mediaPc = "fetch"
    /\ \E outcome \in IF aborted THEN {"error"} ELSE {"error", "notOk", "noBody", "ok"} :
          CASE outcome = "error" ->
                  /\ Reject(FetchFailedError)
                  /\ UNCHANGED fileStream
            [] outcome = "notOk" ->
                  /\ Reject(DownloadFailedError)
                  /\ UNCHANGED fileStream
            [] outcome \in {"noBody", "ok"} ->
                  IF declaredTooLarge(impl, contentLength, maxBytes)
                  THEN /\ Reject(DeclaredTooLargeError)
                       /\ UNCHANGED fileStream
                  ELSE IF outcome = "noBody"
                       THEN /\ Reject(NoBodyError)
                            /\ fileStream' = IF impl = "execution" THEN "open"
                                             ELSE fileStream
                       ELSE /\ fileStream' = "open"
                            /\ mediaPc' = "read"
                            /\ UNCHANGED <<dlResult, timer, mediaError>>
    /\ UNCHANGED <<executorVars, engineVars, mediaInput, frameVars, downloaded, written, reads, readerCancelled,
                   needDrain, buffered, aborted, duration>>

\* Variant of overCap: the running count is never found too large.
overCap_never(count, cap) == FALSE

\* if (downloaded > maxBytes)
overCap(count, cap) == count > cap

\* Variant of afterWrite: the next read is issued whatever write returned.
afterWrite_noWait(canWrite) == "read"

\* if (!canWrite) await drain; then the loop reads again.
afterWrite(canWrite) == IF canWrite THEN "read" ELSE "drain"

\* await reader.read() settles: a rejection (network error, or the abort of
\* the timer), done (fileStream.end()), or a chunk, which is counted, checked
\* against the cap and handed to fileStream.write.
ReadSettles ==
    /\ mediaPc = "read"
    /\ \E outcome \in IF aborted THEN {"error"} ELSE {"error", "data"} :
          IF outcome = "error"
          THEN /\ Reject(ReadFailedError)
               /\ UNCHANGED <<downloaded, written, reads, fileStream, readerCancelled,
                              needDrain, buffered>>
          ELSE IF reads = Len(body)
               THEN /\ fileStream' = "ended"
                    /\ mediaPc' = "finish"
                    /\ UNCHANGED <<dlResult, timer, mediaError, downloaded, written,
                                   reads, readerCancelled, needDrain, buffered>>
               ELSE LET value == body[reads + 1] IN
                    /\ reads' = reads + 1
                    /\ downloaded' = downloaded + value
                    /\ IF overCap(downloaded', maxBytes)
                       THEN /\ readerCancelled' = TRUE
                            /\ Reject(TooLargeError(impl))
                            /\ UNCHANGED <<written, fileStream, needDrain, buffered>>
                       ELSE /\ written' = written + value
                            /\ buffered' = TRUE
                            /\ \E canWrite \in BOOLEAN :
                                  /\ needDrain' = ~canWrite
                                  /\ mediaPc' = afterWrite(canWrite)
                            /\ UNCHANGED <<dlResult, timer, mediaError, fileStream,
                                           readerCancelled>>
    /\ UNCHANGED <<executorVars, engineVars, mediaInput, frameVars, aborted, duration>>

\* The destination has flushed its buffer; when a write had returned false
\* it emits 'drain' and the loop goes on to the next read.
DestinationFlushed ==
    /\ buffered
    /\ buffered' = FALSE
    /\ needDrain' = FALSE
    /\ mediaPc' = IF mediaPc = "drain" THEN "read" ELSE mediaPc
    /\ UNCHANGED <<executorVars, engineVars, mediaInput, frameVars, dlResult, downloaded, written, reads,
                   fileStream, readerCancelled, aborted, timer, duration, mediaError>>

\* spawn(binary, args, {timeout}) of the trigger task; lib/execution spawns
\* without options.
spawnHasTimeout(im) == im = "trigger"

\* The destination emits 'finish' or 'error' after fileStream.end(): either
\* way the stream closes its descriptor. On 'finish' downloadVideo resolves
\* and the extractor spawns the duration probe.
FinishSettles ==
    /\ mediaPc = "finish"
    /\ fileStream' = "closed"
    /\ buffered' = FALSE
    /\ timer' = "cleared"
    /\ \E finished \in BOOLEAN :
          IF finished
          THEN /\ dlResult' = "resolved"
               /\ mediaPc' = "probe"
               /\ UNCHANGED mediaError
          ELSE /\ dlResult' = "rejected"
               /\ mediaPc' = "rejected"
               /\ mediaError' = WriteFailedError
    /\ UNCHANGED <<executorVars, engineVars, mediaInput, frameVars, downloaded, written, reads, readerCancelled,
                   needDrain, aborted, duration>>

\* child.on('close') of getVideoDuration in lib/execution: a Duration token
\* in stderr resolves with its value; 'Invalid data found' rejects; anything
\* else runs resolve(0) before reject, so the promise resolves with 0.
getVideoDuration(stderr, parsed) ==
    CASE stderr = "token" -> [resolved |-> TRUE, value |-> parsed, error |-> ""]
      [] stderr = "invalidData" ->
            [resolved |-> FALSE, value |-> -1, error |-> InvalidVideoError]
      [] stderr = "other" -> [resolved |-> TRUE, value |-> 0, error |-> ""]

\* child.on('close') of getVideoDuration in the trigger task: a non-zero exit
\* code or a non-numeric stdout rejects.
getVideoDurationTrigger(code, numeric, parsed) ==
    IF code # 0 THEN [resolved |-> FALSE, value |-> -1, error |-> ProbeExitError]
    ELSE IF ~numeric
         THEN [resolved |-> FALSE, value |-> -1, error |-> InvalidDurationError]
         ELSE [resolved |-> TRUE, value |-> parsed, error |-> ""]

\* What the probe's child process printed, by implementation: lib/execution
\* looks at stderr only, the trigger task at the exit code and stdout.
ProbeOutputs(im) ==
    IF im = "execution" THEN {"token", "invalidData", "other"}
    ELSE {"number", "notNumber", "exit1"}

\* The settlement of getVideoDuration's promise for a probe output.
probeResult(im, out, parsed) ==
    IF im = "execution" THEN getVideoDuration(out, parsed)
    ELSE getVideoDurationTrigger(IF out = "exit1" THEN 1 ELSE 0, out = "number", parsed)

\* The probe's child process closes. On a resolved duration the extractor
\* computes the seek offset and spawns the extraction, or throws on an
\* invalid timestamp.
ProbeCloses ==
    /\ mediaPc = "probe"
    /\ \E parsed \in Durations : \E out \in ProbeOutputs(impl) :
          LET r == probeResult(impl, out, parsed) IN
          /\ probeOutput' = out
          /\ IF r.resolved
             THEN LET sk == seekSeconds(impl, timestampOr(timestamp), r.value) IN
                  /\ duration' = r.value
                  /\ IF sk.valid
                     THEN /\ seek' = <<sk.value>>
                          /\ mediaPc' = "extract"
                          /\ UNCHANGED mediaError
                     ELSE /\ mediaPc' = "rejected"
                          /\ mediaError' = sk.error
                          /\ UNCHANGED seek
             ELSE /\ mediaPc' = "rejected"
                  /\ mediaError' = r.error
                  /\ UNCHANGED <<duration, seek>>
    /\ UNCHANGED <<executorVars, engineVars, mediaInput, frameInput, dlResult, downloaded, written,
                   reads, fileStream, readerCancelled, needDrain, buffered, aborted,
                   timer, uniqueId, dirs, tmpDir, exitCode, frameFile, frameResult>>

\* Variant of frameExtracted: the exit code alone decides.
frameExtracted_exitCodeOnly(code, exists) == code = 0

\* The extraction succeeded: extractFrameParams resolved (exit code 0) and
\* the file at framePath is there to be read.
frameExtracted(code, exists) == code = 0 /\ exists

\* The extraction's child process closes with an exit code, having left a
\* file at framePath or not. A non-zero code rejects extractFrameParams; after
\* code 0 lib/execution throws unless fs.existsSync(framePath), and the
\* trigger task's readFile(framePath) rejects when the file is missing.
ExtractCloses ==
    /\ mediaPc = "extract"
    /\ \E code \in {0, 1} : \E exists \in BOOLEAN :
          /\ exitCode' = code
          /\ frameFile' = exists
          /\ IF frameExtracted(code, exists)
             THEN /\ mediaPc' = "resolved"
                  /\ UNCHANGED mediaError
             ELSE /\ mediaPc' = "rejected"
                  /\ mediaError' = IF code # 0 THEN ExtractExitError
                                   ELSE IF impl = "execution" THEN NoOutputFileError
                                        ELSE ReadFrameError
    /\ UNCHANGED <<executorVars, engineVars, mediaInput, frameInput, dlResult, downloaded, written,
                   reads, fileStream, readerCancelled, needDrain, buffered, aborted,
                   timer, duration, uniqueId, dirs, tmpDir, probeOutput, seek,
                   frameResult>>

\* The timeout of spawn's options elapses: the child is killed and closes
\* with a null exit code, which rejects the invocation.
ProcessTimeout ==
    /\ mediaPc \in {"probe", "extract"}
    /\ spawnHasTimeout(impl)
    /\ mediaPc' = "rejected"
    /\ mediaError' = TimedOutError
    /\ UNCHANGED <<executorVars, engineVars, mediaInput, frameVars, dlResult, downloaded, written,
                   reads, fileStream, readerCancelled, needDrain, buffered, aborted,
                   timer, duration>>

\* The try block has completed or thrown: the finally block removes the temp
\* directory (rm -rf of its path, whoever made it), then lib/execution
\* returns the frame or rethrows, and the trigger task returns the frame or a
\* result with success: false.
Cleanup ==
    /\ mediaPc \in {"resolved", "rejected"}
    /\ mediaPc' = "done"
    /\ tmpDir' = "removed"
    /\ dirs' = dirs \ {uniqueId}
    /\ frameResult' = IF mediaPc = "resolved" THEN "returned"
                      ELSE IF impl = "execution" THEN "threw" ELSE "failed"
    /\ UNCHANGED <<executorVars, engineVars, mediaInput, frameInput, dlResult, downloaded, written,
                   reads, fileStream, readerCancelled, needDrain, buffered, aborted,
                   timer, duration, mediaError, uniqueId, probeOutput, seek, exitCode,
                   frameFile>>

NextMedia ==
    \/ ExtractorCalled
    \/ DownloadCall
    \/ DownloadTimeout
    \/ FetchSettles
    \/ ReadSettles
    \/ DestinationFlushed
    \/ FinishSettles
    \/ ProbeCloses
    \/ ExtractCloses
    \/ ProcessTimeout
    \/ Cleanup

SpecMedia == InitMedia /\ [][NextMedia]_vars

\* ------------------- crop region: executeCropImageNode (lib/execution) and
\* ------------------- cropImageClient (lib/cropImage)
CropImpls == {"execution", "client"}

\* Image sides in pixels: the small ones and the 100 of a 100x100 image.
Sides == (1..MaxDim) \cup {100}

\* Crop percentages: the grid over 0..100, and 50 and 90.
Percents == {(100 * k) \div PercentSteps : k \in 0..PercentSteps} \cup {50, 90}

Min(a, b) == IF a <= b THEN a ELSE b
Max(a, b) == IF a >= b THEN a ELSE b

\* Math.round(num / den) for num >= 0, den > 0: halves round up.
Round(num, den) == (2 * num + den) \div (2 * den)

\* (value as number) || fallback
orDefault(value, fallback) == IF value = 0 THEN fallback ELSE value

\* left = Math.min(left, Math.max(imgWidth - 1, 0))
clampOffset(offset, side) == Min(offset, Max(side - 1, 0))

\* Variant of clampExtent: the extent is not cut to the remaining space.
clampExtent_unbounded(extent, side, offset) == Max(extent, 1)

\* cropWidth = Math.min(cropWidth, imgWidth - left); then Math.max(cropWidth, 1)
clampExtent(extent, side, offset) == Max(Min(extent, side - offset), 1)

\* The pixel rectangle handed to sharp.extract resp. drawImage.
\* executeCropImageNode reads its percentages and the image's sides with
\* '|| default' (0, 0, 100, 100; 1024), cropImageClient takes them as given.
cropRegion(im, W, H, x, y, w, h) ==
    LET xP == IF im = "execution" THEN orDefault(x, 0) ELSE x
        yP == IF im = "execution" THEN orDefault(y, 0) ELSE y
        wP == IF im = "execution" THEN orDefault(w, 100) ELSE w
        hP == IF im = "execution" THEN orDefault(h, 100) ELSE h
        imgW == IF im = "execution" THEN orDefault(W, 1024) ELSE W
        imgH == IF im = "execution" THEN orDefault(H, 1024) ELSE H
        left == clampOffset(Round(xP * imgW, 100), imgW)
        top == clampOffset(Round(yP * imgH, 100), imgH)
    IN  [left |-> left,
         top |-> top,
         width |-> clampExtent(Round(wP * imgW, 100), imgW, left),
         height |-> clampExtent(Round(hP * imgH, 100), imgH, top)]

\* A crop is asked for: an image of known sides and four percentages.
InitCrop ==
    /\ nodes = <<>>
    /\ edges = <<>>
    /\ scope = "FULL"
    /\ selectedNodes = <<>>
    /\ nodeTypes = <<>>
    /\ nodeData = <<>>
    /\ pc = "input"
    /\ validation = NoValidation
    /\ nodesToExecute = <<>>
    /\ edgesToExecute = <<>>
    /\ parallelGroups = <<>>
    /\ IdleRun
    /\ IdleMedia
    /\ IdleLLM
    /\ IdleEditor
    /\ cropImpl \in CropImpls
    /\ imgWidth \in Sides
    /\ imgHeight \in Sides
    /\ xPercent \in Percents
    /\ yPercent \in Percents
    /\ widthPercent \in Percents
    /\ heightPercent \in Percents
    /\ region = <<>>

\* The crop computes its rectangle and extracts it.
CropExtract ==
    /\ region = <<>>
    /\ region' = <<cropRegion(cropImpl, imgWidth, imgHeight, xPercent, yPercent,
                              widthPercent, heightPercent)>>
    /\ UNCHANGED <<engineVars, mediaVars, llmVars, editorVars, cropInput>>

NextCrop == CropExtract

SpecCrop == InitCrop /\ [][NextCrop]_vars

\* ------------------- inference: executeLLMNode, classifyIntentLocal
\* ------------------- (lib/execution), classifyIntent (trigger)
\* An upstream output: a text, the empty string, an image URL, or no string
\* (the source stored no output).
OutputKinds == {"text", "empty", "image", "undefined"}

UpstreamOutputs == UNION {[1..n -> OutputKinds] : n \in 0..MaxUpstream}

\* Contents of the classification reply, as tuples of characters; <<>> is a
\* reply without content.
Contents ==
    { <<"I", "M", "A", "G", "E">>, <<"i", "m", "a", "g", "e">>,
      <<" ", "I", "m", "a", "g", "e", " ">>, <<"I", "M", "A", "G", "E", ".">>,
      <<"T", "E", "X", "T">>, <<"N", "O">>, <<>> }

\* The settlements of the classification call: it throws, or replies.
Replies ==
    {[ok |-> FALSE, content |-> <<>>]} \cup {[ok |-> TRUE, content |-> c] : c \in Contents}

GenerationFailedError == "textToImage failed"

\* String.prototype.toUpperCase, on the letters of the replies.
toUpperCase(c) ==
    CASE c = "i" -> "I" [] c = "m" -> "M" [] c = "a" -> "A" [] c = "g" -> "G"
      [] c = "e" -> "E" [] c = "t" -> "T" [] c = "x" -> "X" [] c = "n" -> "N"
      [] c = "o" -> "O" [] OTHER -> c

\* String.prototype.trim: leading and trailing blanks are dropped.
RECURSIVE trim(_)
trim(str) ==
    IF str = <<>> THEN str
    ELSE IF Head(str) = " " THEN trim(Tail(str))
    ELSE IF str[Len(str)] = " " THEN trim(SubSeq(str, 1, Len(str) - 1))
    ELSE str

\* Variant of classifyIntentLocal: a failed call counts as an image request.
classifyIntentLocal_imageOnFailure(r) ==
    IF ~r.ok THEN "IMAGE"
    ELSE IF [i \in 1..Len(trim(r.content)) |-> toUpperCase(trim(r.content)[i])]
                = <<"I", "M", "A", "G", "E">>
         THEN "IMAGE" ELSE "TEXT"

\* classifyIntentLocal: 'IMAGE' when the reply's content, trimmed and in upper
\* case, is IMAGE; 'TEXT' otherwise, and when the call throws.
classifyIntentLocal(r) ==
    IF ~r.ok THEN "TEXT"
    ELSE IF [i \in 1..Len(trim(r.content)) |-> toUpperCase(trim(r.content)[i])]
                = <<"I", "M", "A", "G", "E">>
         THEN "IMAGE" ELSE "TEXT"

\* userText = textInputs.join('\n\n') is the empty string: there are no text
\* inputs, or the only one is the empty string, and no image URL adds its
\* bracketed line.
userTextEmpty(ups) ==
    LET texts == {i \in 1..Len(ups) : ups[i] \in {"text", "empty"}}
        images == {i \in 1..Len(ups) : ups[i] = "image"}
    IN  /\ images = {}
        /\ \/ texts = {}
           \/ Cardinality(texts) = 1 /\ \A i \in texts : ups[i] = "empty"

\* An inference node is invoked: credentials and upstream outputs as found.
InitLLM ==
    /\ nodes = <<>>
    /\ edges = <<>>
    /\ scope = "FULL"
    /\ selectedNodes = <<>>
    /\ nodeTypes = <<>>
    /\ nodeData = <<>>
    /\ pc = "input"
    /\ validation = NoValidation
    /\ nodesToExecute = <<>>
    /\ edgesToExecute = <<>>
    /\ parallelGroups = <<>>
    /\ IdleRun
    /\ IdleMedia
    /\ IdleCrop
    /\ IdleEditor
    /\ groqKey \in BOOLEAN
    /\ hfKey \in BOOLEAN
    /\ upstreamOutputs \in UpstreamOutputs
    /\ llmPc = "idle"
    /\ reply = <<>>
    /\ intent = "none"
    /\ calls = <<>>
    /\ llmResult = "pending"
    /\ llmError = ""

\* executeLLMNode runs to its first await: it throws without GROQ_API_KEY or
\* without any input text, and otherwise issues the classification call.
LLMCalled ==
    /\ llmPc = "idle"
    /\ IF ~groqKey \/ userTextEmpty(upstreamOutputs)
       THEN /\ llmPc' = "done"
            /\ llmResult' = "threw"
            /\ llmError' = IF ~groqKey THEN GroqKeyError ELSE NoInputsError
            /\ UNCHANGED calls
       ELSE /\ llmPc' = "classify"
            /\ calls' = Append(calls, "classify")
            /\ UNCHANGED <<llmResult, llmError>>
    /\ UNCHANGED <<engineVars, mediaVars, cropVars, editorVars, llmInput, reply, intent>>

\* if (intent === 'IMAGE' && hfKey)
useImageBranch(in, key) == in = "IMAGE" /\ key

\* The classification call settles; executeLLMNode calls the image
\* generation for an image intent when HUGGINGFACE_API_KEY is set, the text
\* completion otherwise.
ClassifySettles ==
    /\ llmPc = "classify"
    /\ \E r \in Replies :
          /\ reply' = <<r>>
          /\ intent' = classifyIntentLocal(r)
          /\ IF useImageBranch(intent', hfKey)
             THEN /\ llmPc' = "generate"
                  /\ calls' = Append(calls, "textToImage")
             ELSE /\ llmPc' = "complete"
                  /\ calls' = Append(calls, "completion")
    /\ UNCHANGED <<engineVars, mediaVars, cropVars, editorVars, llmInput, llmResult, llmError>>

\* hf.textToImage settles: the image is returned as a data URL, or the
\* executor throws.
GenerateSettles ==
    /\ llmPc = "generate"
    /\ llmPc' = "done"
    /\ \E ok \in BOOLEAN :
          /\ llmResult' = IF ok THEN "returned" ELSE "threw"
          /\ llmError' = IF ok THEN "" ELSE GenerationFailedError
    /\ UNCHANGED <<engineVars, mediaVars, cropVars, editorVars, llmInput, reply, intent, calls>>

\* groq.chat.completions.create of executeWithGroq settles: its text is
\* returned, or the executor throws.
CompleteSettles ==
    /\ llmPc = "complete"
    /\ llmPc' = "done"
    /\ \E ok \in BOOLEAN :
          /\ llmResult' = IF ok THEN "returned" ELSE "threw"
          /\ llmError' = IF ok THEN "" ELSE CompletionFailedError
    /\ UNCHANGED <<engineVars, mediaVars, cropVars, editorVars, llmInput, reply, intent, calls>>

NextLLM == LLMCalled \/ ClassifySettles \/ GenerateSettles \/ CompleteSettles

SpecLLM == InitLLM /\ [][NextLLM]_vars

\* ------------------- editor store: useWorkflowStore (src/lib/store.ts),
\* ------------------- canConnect (lib/types)
\* newHistory.length > 50
HistoryLimit == 50

\* Ids uuidv4 gives to added nodes, in the order of the addNode calls, and the
\* id of the node of the saved workflow.
StoreIDs == 1..MaxStoreNodes
SavedID == MaxStoreNodes + 1

\* The node types the palette adds.
StoreTypes == {"textNode", "cropImageNode", "llmNode"}

\* Everything the store's actions leave alone.
storeFrame == <<scope, nodeData, pc, validation, nodesToExecute, edgesToExecute,
                parallelGroups, runVars, deleteVars, mediaVars, cropVars, llmVars,
                clientVars>>

getNodeOutputTypes(nodeType) ==
    CASE nodeType = "textNode" -> {"text"}
      [] nodeType = "llmNode" -> {"text", "image_url"}
      [] nodeType \in {"imageUploadNode", "cropImageNode", "extractFrameNode"} -> {"image_url"}
      [] nodeType = "videoUploadNode" -> {"video_url"}
      [] OTHER -> {"text"}

getNodeInputTypes(nodeType) ==
    CASE nodeType = "cropImageNode" -> {"image_url"}
      [] nodeType = "extractFrameNode" -> {"video_url"}
      [] nodeType = "llmNode" -> {"text", "image_url"}
      [] OTHER -> {}

canConnect(sourceType, targetType) ==
    getNodeOutputTypes(sourceType) \cap getNodeInputTypes(targetType) # {}

\* addEdge of the flow library: the edge is appended unless an edge with the
\* same endpoints is there already.
addEdge(edge, es) ==
    IF \E i \in 1..Len(es) : es[i].source = edge.source /\ es[i].target = edge.target
    THEN es
    ELSE Append(es, edge)

\* Variant of pushHistory: the oldest snapshot is never dropped.
pushHistory_noShift(h, idx, ns, es) ==
    LET newHistory == SubSeq(h, 1, idx + 1) \o <<Snapshot(ns, es)>>
    IN [history |-> newHistory, historyIndex |-> Len(newHistory) - 1]

\* pushHistory: the history up to historyIndex, then a snapshot of the
\* current nodes and edges; the oldest snapshot goes once there are more
\* than 50; historyIndex points at the snapshot just pushed.
pushHistory(h, idx, ns, es) ==
    LET newHistory == SubSeq(h, 1, idx + 1) \o <<Snapshot(ns, es)>>
        kept == IF Len(newHistory) > HistoryLimit THEN Tail(newHistory) ELSE newHistory
    IN [history |-> kept, historyIndex |-> Len(kept) - 1]

\* The store is new, or deleteEdge was called on the new store often enough
\* to fill the history up to its limit or one short of it.
InitStore ==
    /\ nodes = <<>>
    /\ edges = <<>>
    /\ scope = "FULL"
    /\ selectedNodes = <<>>
    /\ nodeTypes = <<>>
    /\ nodeData = <<>>
    /\ pc = "input"
    /\ validation = NoValidation
    /\ nodesToExecute = <<>>
    /\ edgesToExecute = <<>>
    /\ parallelGroups = <<>>
    /\ IdleRun
    /\ IdleMedia
    /\ IdleCrop
    /\ IdleLLM
    /\ IdleClient
    /\ workflowId = "null"
    /\ steps = 0
    /\ lastEdit = NoEdit
    /\ \/ /\ history = <<>>
          /\ historyIndex = -1
          /\ lastOp = NoOp
          /\ prevOp = [name |-> "none", done |-> FALSE]
       \/ \E k \in {HistoryLimit - 1, HistoryLimit} :
             /\ history = [i \in 1..k |-> Snapshot(<<>>, <<>>)]
             /\ historyIndex = k - 1
             /\ lastOp = [name |-> "deleteEdge", args |-> <<1, 1>>, done |-> TRUE]
             /\ prevOp = [name |-> "deleteEdge", done |-> TRUE]

\* A store action is called; done tells whether it gets past its guards.
Called(name, args, done) ==
    /\ steps < MaxSteps
    /\ steps' = steps + 1
    /\ lastOp' = [name |-> name, args |-> args, done |-> done]
    /\ prevOp' = [name |-> lastOp.name, done |-> lastOp.done]

\* pushHistory() as the first or last statement before an edit's set().
Pushed ==
    LET pushed == pushHistory(history, historyIndex, nodes, edges)
    IN /\ history' = pushed.history
       /\ historyIndex' = pushed.historyIndex

\* The edit turned the current nodes and edges into the primed ones.
Edited == lastEdit' = [before |-> Snapshot(nodes, edges), after |-> Snapshot(nodes', edges')]

addNode(type) ==
    LET id == Len(nodeTypes) + 1 IN
    /\ id \in StoreIDs
    /\ Called("addNode", <<type>>, TRUE)
    /\ Pushed
    /\ nodes' = Append(nodes, id)
    /\ nodeTypes' = Append(nodeTypes, type)
    /\ UNCHANGED <<storeFrame, executionState, edges, selectedNodes, workflowId>>
    /\ Edited

\* node.data.type of a node of the store.
dataType(id) == IF id = SavedID THEN "cropImageNode" ELSE nodeTypes[id]

\* Variant of connectionRefused: validateDAG is not consulted.
connectionRefused_noValidation(source, target) ==
    \/ source \notin Range(nodes)
    \/ target \notin Range(nodes)
    \/ ~canConnect(dataType(source), dataType(target))

\* A connection is refused when an endpoint is no node of the store, when the
\* types do not fit, or when validateDAG rejects the edges with the new one.
connectionRefused(source, target) ==
    \/ source \notin Range(nodes)
    \/ target \notin Range(nodes)
    \/ ~canConnect(dataType(source), dataType(target))
    \/ ~validateDAG(nodes, addEdge([source |-> source, target |-> target], edges)).valid

onConnect(source, target) ==
    /\ Called("onConnect", <<source, target>>, ~connectionRefused(source, target))
    /\ UNCHANGED <<storeFrame, executionState, nodes, nodeTypes, selectedNodes, workflowId>>
    /\ IF connectionRefused(source, target)
       THEN UNCHANGED <<edges, history, historyIndex, lastEdit>>
       ELSE /\ Pushed
            /\ edges' = addEdge([source |-> source, target |-> target], edges)
            /\ Edited

deleteNode(nodeId) ==
    /\ Called("deleteNode", <<nodeId>>, TRUE)
    /\ Pushed
    /\ nodes' = SelectSeq(nodes, LAMBDA id : id # nodeId)
    /\ edges' = SelectSeq(edges, LAMBDA e : e.source # nodeId /\ e.target # nodeId)
    /\ selectedNodes' = SelectSeq(selectedNodes, LAMBDA id : id # nodeId)
    /\ UNCHANGED <<storeFrame, executionState, nodeTypes, workflowId>>
    /\ Edited

\* The id of an edge names its endpoints; the ids deleteEdge is called with
\* are those of the store's edges and one that names no edge.
EdgeIds == {<<edges[i].source, edges[i].target>> : i \in 1..Len(edges)} \cup {<<1, 1>>}

deleteEdge(source, target) ==
    /\ Called("deleteEdge", <<source, target>>, TRUE)
    /\ Pushed
    /\ edges' = SelectSeq(edges, LAMBDA e : ~(e.source = source /\ e.target = target))
    /\ UNCHANGED <<storeFrame, executionState, nodes, nodeTypes, selectedNodes, workflowId>>
    /\ Edited

undo ==
    /\ Called("undo", <<>>, historyIndex > 0)
    /\ IF historyIndex > 0
       THEN /\ nodes' = history[historyIndex].nodes
            /\ edges' = history[historyIndex].edges
            /\ historyIndex' = historyIndex - 1
       ELSE UNCHANGED <<nodes, edges, historyIndex>>
    /\ UNCHANGED <<storeFrame, executionState, nodeTypes, selectedNodes, workflowId, history, lastEdit>>

redo ==
    /\ Called("redo", <<>>, historyIndex < Len(history) - 1)
    /\ IF historyIndex < Len(history) - 1
       THEN /\ nodes' = history[historyIndex + 2].nodes
            /\ edges' = history[historyIndex + 2].edges
            /\ historyIndex' = historyIndex + 1
       ELSE UNCHANGED <<nodes, edges, historyIndex>>
    /\ UNCHANGED <<storeFrame, executionState, nodeTypes, selectedNodes, workflowId, history, lastEdit>>

\* The saved workflows the page loads: an empty one, and one crop node.
SavedWorkflows == {<<>>, <<SavedID>>}

loadWorkflow(ns) ==
    /\ Called("loadWorkflow", ns, TRUE)
    /\ nodes' = ns
    /\ edges' = <<>>
    /\ workflowId' = "saved"
    /\ selectedNodes' = <<>>
    /\ history' = <<Snapshot(ns, <<>>)>>
    /\ historyIndex' = 0
    /\ UNCHANGED <<storeFrame, executionState, nodeTypes, lastEdit>>

resetWorkflow ==
    /\ Called("resetWorkflow", <<>>, TRUE)
    /\ workflowId' = "null"
    /\ nodes' = <<>>
    /\ edges' = <<>>
    /\ selectedNodes' = <<>>
    /\ history' = <<>>
    /\ historyIndex' = -1
    /\ isExecuting' = FALSE
    /\ currentRunId' = 0
    /\ UNCHANGED <<storeFrame, nodeTypes, lastEdit>>

NextStore ==
    \/ \E type \in StoreTypes : addNode(type)
    \/ \E source, target \in 1..SavedID : onConnect(source, target)
    \/ \E nodeId \in 1..SavedID : deleteNode(nodeId)
    \/ \E id \in EdgeIds : deleteEdge(id[1], id[2])
    \/ undo
    \/ redo
    \/ \E ns \in SavedWorkflows : loadWorkflow(ns)
    \/ resetWorkflow

SpecStore == InitStore /\ [][NextStore]_vars

\* ------------------- per-node execution from the editor: useNodeExecution
\* ------------------- (runNode, pollStatus), GET and DELETE /api/runs/[id]
\* The invocations of runNode; the k-th one starts run k.
ClientRuns == 1..MaxClientRuns

\* Everything the client and the run routes leave alone.
clientFrame == <<engineVars, mediaVars, cropVars, llmVars, storeVars>>

InitClient ==
    /\ nodes = <<>>
    /\ edges = <<>>
    /\ scope = "FULL"
    /\ selectedNodes = <<>>
    /\ nodeTypes = <<>>
    /\ nodeData = <<>>
    /\ pc = "input"
    /\ validation = NoValidation
    /\ nodesToExecute = <<>>
    /\ edgesToExecute = <<>>
    /\ parallelGroups = <<>>
    /\ IdleRun
    /\ IdleMedia
    /\ IdleCrop
    /\ IdleLLM
    /\ IdleStore
    /\ isExecuting = FALSE
    /\ currentRunId = 0
    /\ pollPc = [r \in ClientRuns |-> "idle"]
    /\ runRecords = [r \in ClientRuns |-> "NONE"]
    /\ engineOver = [r \in ClientRuns |-> FALSE]
    /\ delRead = [r \in ClientRuns |-> "none"]
    /\ runDeletes = 0
    /\ lastSeen = [r \in ClientRuns |-> "none"]

\* runNode up to its first await: validateDAG refuses the store's graph and
\* runNode returns, or setIsExecuting(true) and the POST is sent.
runNode(r, valid) ==
    /\ pollPc[r] = "idle"
    /\ \A q \in ClientRuns : q < r => pollPc[q] # "idle"
    /\ IF valid
       THEN /\ isExecuting' = TRUE
            /\ lastSeen' = [lastSeen EXCEPT ![r] = "pending"]
            /\ pollPc' = [pollPc EXCEPT ![r] = "posting"]
       ELSE /\ pollPc' = [pollPc EXCEPT ![r] = "refused"]
            /\ UNCHANGED <<isExecuting, lastSeen>>
    /\ UNCHANGED <<clientFrame, currentRunId, runRecords, engineOver, delRead, runDeletes>>

\* The POST settles: with 201 the run exists and is RUNNING, runNode calls
\* setCurrentRunId and pollStatus, whose first fetch is sent; with any other
\* answer or a network error the catch block calls setIsExecuting(false).
PostSettles(r, ok) ==
    /\ pollPc[r] = "posting"
    /\ IF ok
       THEN /\ runRecords' = [runRecords EXCEPT ![r] = "RUNNING"]
            /\ currentRunId' = r
            /\ pollPc' = [pollPc EXCEPT ![r] = "polling"]
            /\ UNCHANGED isExecuting
       ELSE /\ isExecuting' = FALSE
            /\ pollPc' = [pollPc EXCEPT ![r] = "stopped"]
            /\ UNCHANGED <<runRecords, currentRunId>>
    /\ UNCHANGED <<clientFrame, engineOver, delRead, runDeletes, lastSeen>>

\* GET /api/runs/[id]: 404 when the row is gone, the run otherwise; the
\* request can also fail on the way (500, network).
Responses(record) ==
    IF record = "DELETED" THEN {"notOk", "throws"} ELSE {"ok", "notOk", "throws"}

\* data.status === 'COMPLETED' || data.status === 'FAILED' ends the polling.
pollAgain(status) == status \notin {"COMPLETED", "FAILED"}

\* The fetch of poll settles.
PollSettles(r, response) ==
    /\ pollPc[r] = "polling"
    /\ response \in Responses(runRecords[r])
    /\ CASE response = "throws" ->
              /\ isExecuting' = FALSE
              /\ pollPc' = [pollPc EXCEPT ![r] = "stopped"]
              /\ UNCHANGED <<currentRunId, lastSeen>>
         [] response = "notOk" ->
              /\ pollPc' = [pollPc EXCEPT ![r] = "stopped"]
              /\ UNCHANGED <<isExecuting, currentRunId, lastSeen>>
         [] response = "ok" ->
              /\ lastSeen' = [lastSeen EXCEPT ![r] = runRecords[r]]
              /\ IF pollAgain(runRecords[r])
                 THEN /\ pollPc' = [pollPc EXCEPT ![r] = "waiting"]
                      /\ UNCHANGED <<isExecuting, currentRunId>>
                 ELSE /\ isExecuting' = FALSE
                      /\ currentRunId' = 0
                      /\ pollPc' = [pollPc EXCEPT ![r] = "stopped"]
    /\ UNCHANGED <<clientFrame, runRecords, engineOver, delRead, runDeletes>>

\* setTimeout(poll, 1000) fires: the next fetch is sent.
PollTimer(r) ==
    /\ pollPc[r] = "waiting"
    /\ pollPc' = [pollPc EXCEPT ![r] = "polling"]
    /\ UNCHANGED <<clientFrame, executionState, runRecords, engineOver, delRead, runDeletes, lastSeen>>

\* executeWorkflowNodes returns: its closing update sets COMPLETED or FAILED
\* on the row, and fails when the row is gone.
EngineReturns(r, status) ==
    /\ runRecords[r] \notin {"NONE"}
    /\ ~engineOver[r]
    /\ engineOver' = [engineOver EXCEPT ![r] = TRUE]
    /\ runRecords' = [runRecords EXCEPT ![r] =
                          IF runRecords[r] = "DELETED" THEN "DELETED" ELSE status]
    /\ UNCHANGED <<clientFrame, executionState, pollPc, delRead, runDeletes, lastSeen>>

\* DELETE /api/runs/[id]: findFirst, 404 when the row is gone.
ClientDeleteFind(r) ==
    /\ runRecords[r] # "NONE"
    /\ delRead[r] = "none"
    /\ runDeletes < MaxDeletes
    /\ runDeletes' = runDeletes + 1
    /\ delRead' = [delRead EXCEPT ![r] =
                      IF runRecords[r] = "DELETED" THEN "none" ELSE runRecords[r]]
    /\ UNCHANGED <<clientFrame, executionState, pollPc, runRecords, engineOver, lastSeen>>

\* DELETE /api/runs/[id]: update to CANCELLED when RUNNING or PENDING was
\* read, delete the row otherwise.
ClientDeleteApply(r) ==
    /\ delRead[r] # "none"
    /\ delRead' = [delRead EXCEPT ![r] = "none"]
    /\ runRecords' = [runRecords EXCEPT ![r] =
                          IF runRecords[r] = "DELETED" THEN "DELETED"
                          ELSE IF delRead[r] \in {"RUNNING", "PENDING"} THEN "CANCELLED"
                          ELSE "DELETED"]
    /\ UNCHANGED <<clientFrame, executionState, pollPc, engineOver, runDeletes, lastSeen>>

\* A step of the client or of the engine: a request settles, a timer fires,
\* the engine returns.
ClientStep ==
    \/ \E r \in ClientRuns : \E ok \in BOOLEAN : PostSettles(r, ok)
    \/ \E r \in ClientRuns : \E response \in {"ok", "notOk", "throws"} : PollSettles(r, response)
    \/ \E r \in ClientRuns : PollTimer(r)
    \/ \E r \in ClientRuns : \E status \in {"COMPLETED", "FAILED"} : EngineReturns(r, status)
    \/ \E r \in ClientRuns : ClientDeleteApply(r)

NextClient ==
    \/ \E r \in ClientRuns : \E valid \in BOOLEAN : runNode(r, valid)
    \/ ClientStep
    \/ \E r \in ClientRuns : ClientDeleteFind(r)

\* Requests, timers and engines get their turn; nothing is assumed of what
\* the user does.
SpecClient == InitClient /\ [][NextClient]_vars /\ WF_vars(ClientStep)

\* ------------------------------------------------ graph notions for the claims
\* The edges between existing nodes, as a set of pairs.
EdgePairs(ns, es) ==
    {<<es[i].source, es[i].target>> : i \in {j \in 1..Len(es) :
        es[j].source \in Range(ns) /\ es[j].target \in Range(ns)}}

\* Pairs <<u, v>> joined by a directed path of at least one edge.
RECURSIVE PathClosure(_, _)
PathClosure(R, E) ==
    LET ends == {e[1] : e \in E} \cup {e[2] : e \in E}
        R1 == R \cup {pq \in ends \X ends :
                        \E m \in ends : <<pq[1], m>> \in R /\ <<m, pq[2]>> \in E}
    IN IF R1 = R THEN R ELSE PathClosure(R1, E)

Paths(ns, es) == PathClosure(EdgePairs(ns, es), EdgePairs(ns, es))

Dangling(ns, es) ==
    \E i \in 1..Len(es) : es[i].source \notin Range(ns) \/ es[i].target \notin Range(ns)

HasDirectedCycle(ns, es) == \E id \in Range(ns) : <<id, id>> \in Paths(ns, es)

\* Index of the wave that holds id (0 when no wave does).
WaveOf(groups, id) ==
    IF \E g \in 1..Len(groups) : id \in Range(groups[g])
    THEN CHOOSE g \in 1..Len(groups) : id \in Range(groups[g])
    ELSE 0

\* Number of positions of the waves that hold id.
Occurrences(groups, id) ==
    Cardinality({gj \in (1..Len(groups)) \X (1..(MaxNodes + MaxRunNodes)) :
        gj[2] <= Len(groups[gj[1]]) /\ groups[gj[1]][gj[2]] = id})

\* Length of the longest directed path ending at id (acyclic graphs only).
RECURSIVE Depth(_, _)
Depth(E, id) ==
    LET preds == {e[1] : e \in {x \in E : x[2] = id}} IN
    IF preds = {} THEN 0
    ELSE 1 + (CHOOSE d \in {Depth(E, p) : p \in preds} :
                 \A d2 \in {Depth(E, p) : p \in preds} : d2 <= d)

\* --------------------------------------------------- claims on the engine
\* Nodes with an edge into id, among the edges handed to the engine.
Preds(id) ==
    {edgesToExecute[i].source : i \in {j \in 1..Len(edgesToExecute) :
        edgesToExecute[j].target = id}}

Marked == {"RUNNING", "SUCCESS", "FAILED"}
Terminal == {"COMPLETED", "FAILED", "CANCELLED"}

\* C1: a node is marked RUNNING (and its callback is started) only after
\* every node with an edge into it has been marked SUCCESS, in an earlier
\* wave; in the diamond node 4 starts only once 2 and 3 are SUCCESS.
C1_RunningOnlyAfterPredecessors ==
    \A id \in DOMAIN taskPc : \A p \in Preds(id) :
        /\ (nodeLog[id] \in Marked) =>
              /\ nodeLog[p] = "SUCCESS"
              /\ WaveOf(parallelGroups, p) < WaveOf(parallelGroups, id)
        /\ (taskPc[id] # "idle") =>
              /\ taskPc[p] = "resolved"
              /\ p \in outputs
              /\ WaveOf(parallelGroups, p) < WaveOf(parallelGroups, id)

C1_Witness ==
    /\ nodesToExecute = NodeArray(4)
    /\ edgesToExecute = Diamond
    /\ nodeLog[4] = "RUNNING"
    /\ nodeLog[2] = "SUCCESS"
    /\ nodeLog[3] = "SUCCESS"

\* No node of a wave after a failed node's wave has been started or marked.
NoLaterWaveStarted ==
    \A f, id \in DOMAIN taskPc :
        ((nodeLog[f] = "FAILED" \/ taskPc[f] = "rejected")
            /\ WaveOf(parallelGroups, id) > WaveOf(parallelGroups, f))
        => (taskPc[id] = "idle" /\ nodeLog[id] \in {"PENDING", "NONE"})

\* Some node of the run is marked FAILED.
SomeNodeFailed == \E f \in DOMAIN nodeLog : nodeLog[f] = "FAILED"

\* A failed node makes the engine leave the wave loop for its catch block.
FailureAbortsLoop ==
    (SomeNodeFailed \/ \E f \in DOMAIN taskPc : taskPc[f] = "rejected")
        => enginePc \in {"failing", "done"}

\* C2: once a node is marked FAILED no node of a later wave is ever started
\* or marked RUNNING, the engine leaves the wave loop, and its catch block
\* sets the run's status to FAILED (the status of the run's record, which
\* exists whenever one of its node logs reads FAILED).
C2_FailFastThenRunFailed ==
    /\ []NoLaterWaveStarted
    /\ []FailureAbortsLoop
    /\ [][(SomeNodeFailed /\ enginePc = "failing" /\ enginePc' = "done")
            => runStatus' = "FAILED"]_vars

\* A failed node, an unstarted node of a later wave, the run FAILED.
C2_Witness ==
    /\ runStatus = "FAILED"
    /\ enginePc = "done"
    /\ \E f, id \in DOMAIN taskPc :
          /\ nodeLog[f] = "FAILED"
          /\ WaveOf(parallelGroups, id) > WaveOf(parallelGroups, f)
          /\ nodeLog[id] = "PENDING"

\* C3: when the run is FAILED every callback of the run has settled or was
\* never started: no node is RUNNING, and none can change its status or
\* write the output map afterwards.
C3_SiblingsSettledWhenRunFailed ==
    (runStatus = "FAILED") =>
        \A id \in DOMAIN taskPc :
            /\ nodeLog[id] # "RUNNING"
            /\ taskPc[id] \in {"idle", "resolved", "rejected"}

\* C4: once the run's status is COMPLETED, FAILED or CANCELLED it is never
\* written to a different value.
C4_TerminalStatusWrittenOnce ==
    [][(runStatus \in Terminal /\ runStatus' # "NONE") => runStatus' = runStatus]_vars

\* C9: a node's logged status only moves pending -> running -> success or
\* failed, and executeNode is invoked at most once per node.
C9_NodeStatusMonotone ==
    /\ [][\A id \in DOMAIN nodeLog :
            (nodeLog'[id] # nodeLog[id] /\ nodeLog'[id] # "NONE") =>
                <<nodeLog[id], nodeLog'[id]>> \in
                    {<<"PENDING", "RUNNING">>, <<"RUNNING", "SUCCESS">>,
                     <<"RUNNING", "FAILED">>}]_vars
    /\ [](\A id \in DOMAIN executions : executions[id] <= 1)

\* One node ended SUCCESS and another FAILED, each executed once.
C9_Witness ==
    \E a, b \in DOMAIN nodeLog :
        /\ nodeLog[a] = "SUCCESS" /\ executions[a] = 1
        /\ nodeLog[b] = "FAILED" /\ executions[b] = 1

\* C10: the entry of node n in the output map is written at most once, by
\* n's own callback after its executor returned successfully, and every
\* downstream node that has read its upstream entries found all of them
\* written.
C10_OutputSingleWriterReadAfterWrite ==
    \A id \in DOMAIN taskPc :
        /\ outputWrites[id] <= 1
        /\ (id \in outputs) <=> (outputWrites[id] = 1)
        /\ (id \in outputs) <=> (taskPc[id] \in {"writeSuccess", "resolved"})
        /\ (taskPc[id] \notin {"idle", "markRunning"}) => upstreamData[id] = Preds(id)

\* Node 4 of the diamond has read the entries written by 2 and 3.
C10_Witness ==
    /\ edgesToExecute = Diamond
    /\ taskPc[4] = "writeSuccess"
    /\ upstreamData[4] = {2, 3}
    /\ outputWrites[2] = 1
    /\ outputWrites[3] = 1

\* The executor of node id threw.
Threw(id) == executorResult[id] \notin {"none", "ok"}

\* C11: the run's status is COMPLETED only when every node of every wave has
\* resolved and is marked SUCCESS; once a node's executor has thrown the
\* status is never COMPLETED, and the write of the engine's catch block (taken
\* on a node failure or on an error of the engine itself) sets FAILED.
C11_CompletedOnlyAfterAllSuccess ==
    /\ [](runStatus = "COMPLETED" =>
            \A id \in DOMAIN taskPc : taskPc[id] = "resolved" /\ nodeLog[id] = "SUCCESS")
    /\ []((\E f \in DOMAIN taskPc : Threw(f)) => runStatus # "COMPLETED")
    /\ [][(enginePc = "failing" /\ enginePc' = "done" /\ runStatus # "NONE")
            => runStatus' = "FAILED"]_vars

\* A run of at least two waves and three nodes has been marked COMPLETED.
C11_Witness ==
    /\ runStatus = "COMPLETED"
    /\ Len(parallelGroups) >= 2
    /\ Len(nodesToExecute) >= 3
    /\ \A id \in DOMAIN nodeLog : nodeLog[id] = "SUCCESS"

\* C12: when the run's status is FAILED every node whose callback was never
\* started is still PENDING (no log ever reads SKIPPED); a log reads SUCCESS
\* only if the node's executor returned and FAILED only if it threw, the
\* stored error being the thrown message; an output is stored only on a
\* SUCCESS log and an error only on a FAILED log.
C12_FailedRunAuditTrail ==
    \A id \in DOMAIN nodeLog :
        /\ (runStatus = "FAILED" /\ taskPc[id] = "idle") => nodeLog[id] = "PENDING"
        /\ nodeLog[id] # "SKIPPED"
        /\ (nodeLog[id] = "SUCCESS") => executorResult[id] = "ok"
        /\ (nodeLog[id] = "FAILED") => (Threw(id) /\ logError[id] = executorResult[id])
        /\ logOutput[id] => nodeLog[id] = "SUCCESS"
        /\ (logError[id] # "") => nodeLog[id] = "FAILED"

\* The run is FAILED with one node SUCCESS, one FAILED and one of a later
\* wave never started.
C12_Witness ==
    /\ runStatus = "FAILED"
    /\ \E a, b, c \in DOMAIN nodeLog :
          /\ nodeLog[a] = "SUCCESS" /\ logOutput[a]
          /\ nodeLog[b] = "FAILED" /\ logError[b] # ""
          /\ taskPc[c] = "idle" /\ nodeLog[c] = "PENDING"
          /\ WaveOf(parallelGroups, c) > WaveOf(parallelGroups, b)

\* The DELETE handler takes its cancel branch on an existing run.
CancelStep ==
    /\ delPc = "found"
    /\ delPc' = "idle"
    /\ existing \in {"RUNNING", "PENDING"}
    /\ runStatus # "NONE"

\* C13: the cancel branch of DELETE sets the run's status to CANCELLED and
\* changes nothing else: no node log, no callback, not the engine; and while
\* the run is CANCELLED every node marked RUNNING still has its callback
\* pending, whose next step is the executor's settling or the write of
\* SUCCESS or FAILED.
C13_CancelIsAdvisory ==
    /\ [][CancelStep =>
            /\ runStatus' = "CANCELLED"
            /\ UNCHANGED <<nodeLog, logOutput, logError, taskPc, enginePc, groupIndex,
                           outputs, outputWrites, upstreamData, executions,
                           executorResult>>]_vars
    /\ [](\A id \in DOMAIN nodeLog :
            (runStatus = "CANCELLED" /\ nodeLog[id] = "RUNNING") =>
                ENABLED (ExecutorSettles(id) \/ LogSuccess(id) \/ LogFailed(id)))
    /\ [][\A id \in DOMAIN nodeLog :
            (runStatus = "CANCELLED" /\ nodeLog[id] = "RUNNING"
                /\ nodeLog'[id] \notin {"RUNNING", "NONE"}) =>
                    nodeLog'[id] = IF Threw(id) THEN "FAILED" ELSE "SUCCESS"]_vars

\* A run cancelled while RUNNING whose engine still awaits a wave: one node
\* of the wave is marked SUCCESS, another is still RUNNING.
C13_Witness ==
    /\ runStatus = "CANCELLED"
    /\ existing = "RUNNING"
    /\ enginePc = "await"
    /\ \E a, b \in DOMAIN nodeLog :
          /\ WaveOf(parallelGroups, a) = WaveOf(parallelGroups, b)
          /\ nodeLog[a] = "SUCCESS"
          /\ nodeLog[b] = "RUNNING"

\* The request is a Text node and a Crop node without edges, and no DELETE
\* was sent for the run.
TextAndCrop(text, crop) ==
    /\ nodes = NodeArray(2)
    /\ edges = <<>>
    /\ scope = "FULL"
    /\ nodeTypes[text] = "textNode"
    /\ nodeTypes[crop] = "cropImageNode"
    /\ deletes = 0

\* The engine has returned and every callback has settled.
RunSettled ==
    /\ enginePc = "done"
    /\ \A id \in DOMAIN taskPc : taskPc[id] \in {"idle", "resolved", "rejected"}

\* C14: a full run of a Text node and a Crop node without edges ends with
\* Crop FAILED on the no-image-input error, Text SUCCESS and the run FAILED;
\* the run is never COMPLETED on the way.
C14_TextAndUnconnectedCrop ==
    \A text, crop \in Range(nodes) :
        TextAndCrop(text, crop) =>
            /\ runStatus # "COMPLETED"
            /\ RunSettled =>
                  /\ nodeLog[crop] = "FAILED"
                  /\ logError[crop] = NoImageInputError
                  /\ nodeLog[text] = "SUCCESS"
                  /\ runStatus = "FAILED"

C14_Witness ==
    \E text, crop \in Range(nodes) :
        /\ TextAndCrop(text, crop)
        /\ RunSettled
        /\ nodeLog[crop] = "FAILED"
        /\ nodeLog[text] = "SUCCESS"
        /\ runStatus = "FAILED"

\* C15: when the submitted graph has a dangling edge or a directed cycle,
\* POST answers with an error and there is no run record, no node log, no
\* callback and no executeNode invocation.
C15_InvalidGraphNeverStarts ==
    (pc # "input" /\ (Dangling(nodes, edges) \/ HasDirectedCycle(nodes, edges))) =>
        /\ pc = "rejected"
        /\ ~validation.valid
        /\ runStatus = "NONE"
        /\ DOMAIN nodeLog = {}
        /\ DOMAIN taskPc = {}
        /\ DOMAIN executions = {}
        /\ enginePc = "idle"

\* A request with a directed cycle and no dangling edge was rejected.
C15_Witness ==
    /\ pc = "rejected"
    /\ HasDirectedCycle(nodes, edges)
    /\ ~Dangling(nodes, edges)
    /\ runStatus = "NONE"

\* The run holds a node whose type executeNode has no case for.
UnknownInRun == \E id \in DOMAIN taskPc : nodeTypes[id] \notin KnownNodeTypes

\* C31: a node whose type is not one of the six known kinds never has an
\* output stored and never reads SUCCESS; its executor throws the unknown-
\* node-type error, which is the error its FAILED row stores; the run it is
\* part of is never COMPLETED and the engine's closing write sets FAILED.
C31_UnknownTypeFails ==
    /\ [](\A id \in DOMAIN taskPc :
            nodeTypes[id] \notin KnownNodeTypes =>
                /\ id \notin outputs
                /\ nodeLog[id] # "SUCCESS"
                /\ ~logOutput[id]
                /\ executorResult[id] \in {"none", UnknownNodeTypeError}
                /\ (taskPc[id] = "rejected") =>
                        /\ nodeLog[id] \in {"FAILED", "NONE"}
                        /\ (nodeLog[id] = "FAILED") => logError[id] = UnknownNodeTypeError)
    /\ [](UnknownInRun => runStatus # "COMPLETED")
    /\ [][(UnknownInRun /\ enginePc # "done" /\ enginePc' = "done" /\ runStatus # "NONE")
            => runStatus' = "FAILED"]_vars

\* A node of an unknown type was executed next to a node that succeeded; its
\* row is FAILED with the unknown-node-type error and the run is FAILED.
C31_Witness ==
    /\ runStatus = "FAILED"
    /\ enginePc = "done"
    /\ \E id, ok \in DOMAIN taskPc :
          /\ nodeTypes[id] \notin KnownNodeTypes
          /\ nodeLog[id] = "FAILED"
          /\ logError[id] = UnknownNodeTypeError
          /\ nodeLog[ok] = "SUCCESS"

Passthrough == {"textNode", "imageUploadNode", "videoUploadNode"}

\* C28: the executor of a passthrough node returns when the node's configured
\* literal or reference is present, and throws when it is absent or empty:
\* then no output is stored for the node and its row is never SUCCESS.
C28_PassthroughNeedsValue ==
    \A id \in DOMAIN executorResult :
        (nodeTypes[id] \in Passthrough /\ executorResult[id] # "none") =>
            /\ (nodeData[id] = "value") => executorResult[id] = "ok"
            /\ (nodeData[id] \in {"absent", "empty"}) =>
                    /\ Threw(id)
                    /\ id \notin outputs
                    /\ nodeLog[id] # "SUCCESS"

\* ------------------------------------- claims on the frame extraction I/O
\* C16: whenever the response declares a content-length greater than
\* maxBytes, downloadVideo reads no body chunk, opens no destination and
\* never resolves: once the response has arrived it has failed.
C16_DeclaredOverCapFailsBeforeBody ==
    (contentLength > maxBytes) =>
        /\ reads = 0
        /\ fileStream = "unopened"
        /\ dlResult # "resolved"
        /\ (timer # "unset" /\ mediaPc # "fetch") => dlResult = "rejected"

\* C17: downloadVideo never resolves after the running byte count has
\* exceeded maxBytes; the chunk that makes it exceed is not written, the
\* reader is cancelled and the download fails with the too-large error, and
\* nothing is read or written afterwards.
C17_NeverSuccessBeyondCap ==
    /\ [](dlResult = "resolved" => (downloaded <= maxBytes /\ written = downloaded))
    /\ [](written <= maxBytes)
    /\ [](downloaded > maxBytes =>
            /\ readerCancelled
            /\ dlResult = "rejected"
            /\ mediaError = TooLargeError(impl)
            /\ written = downloaded - body[reads])
    /\ [][downloaded > maxBytes => UNCHANGED <<reads, written, dlResult>>]_vars

\* A stream of undeclared length crossed the cap on its second chunk or
\* later, after part of it was written.
C17_Witness ==
    /\ contentLength = -1
    /\ downloaded > maxBytes
    /\ reads >= 2
    /\ written > 0
    /\ dlResult = "rejected"

\* C18: whenever downloadVideo has returned (resolved or thrown) after it
\* opened the destination write stream, the destination has been closed.
C18_DestinationClosedOnExit ==
    (dlResult # "pending" /\ fileStream # "unopened") => fileStream = "closed"

\* C19: from the write that returned false until the destination's drain,
\* no chunk is read from the source.
C19_NoReadBeforeDrain ==
    /\ [][needDrain => reads' = reads]_vars
    /\ [](needDrain => mediaPc # "read")

\* A write returned false while the body has more chunks to deliver.
C19_Witness ==
    /\ needDrain
    /\ mediaPc = "drain"
    /\ reads >= 1
    /\ reads < Len(body)

\* C20: while a child process of the duration probe or of the frame
\* extraction is awaited, a timeout is in force that settles the invocation
\* without the child's exit.
C20_ProcessInvocationsHaveTimeout ==
    (mediaPc \in {"probe", "extract"}) => ENABLED ProcessTimeout

\* C21: whenever the duration probe closed without a parseable duration (no
\* Duration token in the diagnostic stream, a non-numeric value, or - in the
\* trigger task - a failed exit), getVideoDuration has rejected: no duration
\* value exists, no seek offset is computed and the extractor fails.
C21_ProbeRejectsWithoutDuration ==
    (probeOutput \in {"invalidData", "other", "notNumber", "exit1"}) =>
        /\ duration = -1
        /\ seek = <<>>
        /\ mediaPc \in {"rejected", "done"}
        /\ frameResult # "returned"

\* C22: an extractor that spawned the extraction returns a frame only after
\* the child exited with code 0 and left the output file; after a non-zero
\* exit, or a zero exit without the output file, it fails (lib/execution
\* throws, the trigger task returns success: false) and returns no frame.
\* (The Cloudinary URL rewrite of lib/execution spawns no extraction.)
C22_SuccessNeedsZeroExitAndFile ==
    /\ (mediaPc = "resolved" \/ (frameResult = "returned" /\ tmpDir # "none")) =>
            (exitCode = 0 /\ frameFile)
    /\ (exitCode = 1 \/ (exitCode = 0 /\ ~frameFile)) =>
            /\ mediaPc \in {"rejected", "done"}
            /\ frameResult \in {"pending", "threw", "failed"}
            /\ mediaError \in {ExtractExitError, NoOutputFileError, ReadFrameError}
            /\ (mediaPc = "done") => frameResult \in {"threw", "failed"}

\* The extraction exited with code 0 without leaving the output file, and
\* the extractor has failed.
C22_Witness ==
    /\ exitCode = 0
    /\ ~frameFile
    /\ mediaPc = "done"
    /\ frameResult \in {"threw", "failed"}

\* C23: once an extractor that made its temp directory has exited, the
\* directory is removed; and while it holds the directory, no other
\* invocation has a directory of the same name.
C23_TempDirRemovedAndUnshared ==
    /\ (mediaPc = "done") => tmpDir # "created"
    /\ (tmpDir = "created") => uniqueId \notin dirs

\* The percentage of a timestamp that ends in '%', in hundredths.
Percent == parseFloat(replace(timestampOr(timestamp), "%"))

IsPercentage == endsWith(timestampOr(timestamp), "%")

InvalidPercentage ==
    IsPercentage /\ (isNaN(Percent) \/ Percent.value < 0 \/ Percent.value > 10000)

\* C24: whatever the upstream video reference, an extractor given a
\* percentage timestamp that is not a number or lies outside 0..100 never
\* returns a frame and computes no seek offset, and once the duration is
\* known it has failed with the invalid-percentage error; given a valid
\* percentage p it seeks to p / 100 * duration ("50%" of the 10.0 s clip:
\* 5.0 s).
C24_PercentageTimestamp ==
    /\ InvalidPercentage =>
            /\ frameResult # "returned"
            /\ seek = <<>>
            /\ (duration # -1) => mediaError = InvalidPercentageError
    /\ (IsPercentage /\ ~InvalidPercentage /\ duration # -1) =>
            seek = <<Percent.value * duration>>
    /\ (timestamp = <<"5", "0", "%">> /\ duration = ClipLength) => seek = <<5000000>>

\* The value of a timestamp that does not end in '%', in hundredths of a
\* second.
Absolute ==
    parseFloat(IF impl = "execution" THEN replace(timestampOr(timestamp), "s")
               ELSE timestamp)

InvalidAbsolute == ~IsPercentage /\ (isNaN(Absolute) \/ Absolute.value < 0)

\* C25: an extractor given an absolute timestamp that is not a number or is
\* negative never returns a frame and computes no seek offset, and once the
\* duration is known it has failed with the invalid-timestamp error; a valid
\* absolute timestamp greater than the duration seeks to duration - 0.1; and
\* 9.95 s on the 10.0 s clip seeks to 9.9 s.
C25_AbsoluteTimestamp ==
    /\ InvalidAbsolute =>
            /\ frameResult # "returned"
            /\ seek = <<>>
            /\ (duration # -1) => mediaError = InvalidTimestampError
    /\ (~IsPercentage /\ ~InvalidAbsolute /\ duration # -1
            /\ Absolute.value > duration) =>
            seek = <<(duration - 10) * 10000>>
    /\ (~IsPercentage /\ ~InvalidAbsolute /\ Absolute.value = 995
            /\ duration = ClipLength) =>
            seek = <<9900000>>

\* C38: whatever timestamp an extractor accepts and whatever duration the
\* probe gives, the seek offset handed to the extraction is at least 0 and
\* at most the duration.
C38_SeekWithinClip ==
    (seek # <<>>) => (0 <= seek[1] /\ seek[1] <= duration * 10000)

\* ------------------------------------------------- claims on the crop region
\* C26: for every image with sides >= 1 and every four percentages in
\* 0..100, 0 included, the crop extracts exactly the rectangle
\* left = min(round(x% * W), max(W - 1, 0)),
\* width = max(min(round(width% * W), W - left), 1), top and height alike;
\* with x = 0, y = 0, width = 100, height = 100 this is the whole image.
C26_CropRectangleRule ==
    (region # <<>>) =>
        LET left == Min(Round(xPercent * imgWidth, 100), Max(imgWidth - 1, 0))
            top == Min(Round(yPercent * imgHeight, 100), Max(imgHeight - 1, 0))
        IN  /\ region[1].left = left
            /\ region[1].top = top
            /\ region[1].width =
                    Max(Min(Round(widthPercent * imgWidth, 100), imgWidth - left), 1)
            /\ region[1].height =
                    Max(Min(Round(heightPercent * imgHeight, 100), imgHeight - top), 1)
            /\ (xPercent = 0 /\ yPercent = 0 /\ widthPercent = 100
                    /\ heightPercent = 100) =>
                    region[1] = [left |-> 0, top |-> 0, width |-> imgWidth,
                                 height |-> imgHeight]

\* C27: the rectangle a crop extracts lies within the image and is not
\* empty: 0 <= left <= W - 1, 0 <= top <= H - 1, 1 <= width <= W - left,
\* 1 <= height <= H - top; a 100x100 image with x = 90 and width = 50
\* gives left = 90 and width = 10.
C27_CropWithinBounds ==
    (region # <<>>) =>
        /\ 0 <= region[1].left /\ region[1].left <= imgWidth - 1
        /\ 0 <= region[1].top /\ region[1].top <= imgHeight - 1
        /\ 1 <= region[1].width /\ region[1].width <= imgWidth - region[1].left
        /\ 1 <= region[1].height /\ region[1].height <= imgHeight - region[1].top
        /\ (imgWidth = 100 /\ xPercent = 90 /\ widthPercent = 50) =>
                (region[1].left = 90 /\ region[1].width = 10)

\* The crop of a 100x100 image at x = 90 with width = 50 was extracted: the
\* requested width reaches beyond the right edge.
C27_Witness ==
    /\ region # <<>>
    /\ imgWidth = 100
    /\ imgHeight = 100
    /\ xPercent = 90
    /\ widthPercent = 50
    /\ region[1].width = 10

\* C39: for the same image sides and the same four percentages, the
\* rectangle one crop extracted is the rectangle the other crop selects.
C39_CropsAgree ==
    (region # <<>>) =>
        \A im \in CropImpls :
            region[1] = cropRegion(im, imgWidth, imgHeight, xPercent, yPercent,
                                   widthPercent, heightPercent)

\* ---------------------------------------------------- claims on inference
InCalls(c) == \E i \in 1..Len(calls) : calls[i] = c

\* C29: an inference node without the text-completion key fails at once with
\* the configuration error and calls no collaborator; and one without the
\* image-generation key whose request is classified as an image request fails
\* with an error and calls neither the generation nor the completion.
C29_MissingCredentialFails ==
    /\ (~groqKey /\ llmPc # "idle") =>
            /\ llmResult = "threw"
            /\ llmError = GroqKeyError
            /\ calls = <<>>
    /\ (~hfKey /\ intent = "IMAGE") =>
            /\ llmResult = "threw"
            /\ ~InCalls("textToImage")
            /\ ~InCalls("completion")

\* C30: when the classification call fails, the executor goes on with the
\* text completion and does not fail for it; and the image generation is
\* called only after a reply whose content was IMAGE (trimmed, any case).
C30_ClassifierFailureFallsBack ==
    /\ (reply # <<>> /\ ~reply[1].ok) =>
            /\ intent = "TEXT"
            /\ calls = <<"classify", "completion">>
            /\ (llmResult = "threw") => llmError = CompletionFailedError
    /\ InCalls("textToImage") =>
            /\ reply # <<>>
            /\ reply[1].ok
            /\ reply[1].content \in
                    { <<"I", "M", "A", "G", "E">>, <<"i", "m", "a", "g", "e">>,
                      <<" ", "I", "m", "a", "g", "e", " ">> }
            /\ hfKey

\* The classification call failed and the node returned the completion's
\* text, with the image-generation key set.
C30_Witness ==
    /\ reply # <<>>
    /\ ~reply[1].ok
    /\ hfKey
    /\ llmResult = "returned"

\* ----------------------------------------------------- claims on lib/dag.ts
\* C5: for every graph accepted by validateDAG, the waves of getParallelGroups
\* hold every node exactly once and nothing else, every edge u->v has u in a
\* strictly earlier wave than v, and the diamond 1->2, 1->3, 2->4, 3->4
\* yields <<<<1>>, <<2, 3>>, <<4>>>>.
C5_WavesPartitionInOrder ==
    (pc = "grouped" /\ validation.valid) =>
        /\ \A g \in 1..Len(parallelGroups) : Range(parallelGroups[g]) \subseteq Range(nodes)
        /\ \A id \in Range(nodes) : Occurrences(parallelGroups, id) = 1
        /\ \A i \in 1..Len(edges) :
              WaveOf(parallelGroups, edges[i].source) < WaveOf(parallelGroups, edges[i].target)
        /\ (nodes = NodeArray(4) /\ edges = Diamond) =>
              parallelGroups = <<<<1>>, <<2, 3>>, <<4>>>>

C5_Witness ==
    /\ pc = "grouped"
    /\ validation.valid
    /\ nodes = NodeArray(4)
    /\ edges = Diamond
    /\ parallelGroups = <<<<1>>, <<2, 3>>, <<4>>>>

\* C6: validateDAG answers invalid with the non-existent-node reason whenever
\* an edge names an id absent from the nodes (cycle or not); otherwise valid
\* exactly when there is no directed cycle (self-loops are cycles), and
\* invalid with the cycle reason when there is one.
C6_ValidateDAG ==
    (pc # "input") =>
        validation =
            IF Dangling(nodes, edges) THEN [valid |-> FALSE, error |-> NoEdgeError]
            ELSE IF HasDirectedCycle(nodes, edges) THEN [valid |-> FALSE, error |-> CycleError]
            ELSE [valid |-> TRUE, error |-> ""]

\* A cycle of length three found, with a forward/cross edge alongside it.
C6_Witness ==
    /\ pc = "validated"
    /\ validation = [valid |-> FALSE, error |-> CycleError]
    /\ \E a, b, c \in Range(nodes) :
          /\ Cardinality({a, b, c}) = 3
          /\ {<<a, b>>, <<b, c>>, <<c, a>>} \subseteq EdgePairs(nodes, edges)

\* C7: on a validated graph getExecutionSubgraph(S, nodes, edges) returns
\* exactly the nodes that are in S or have a directed path to a member of S,
\* and exactly the edges with both endpoints among those nodes.
C7_SubgraphIsUpstreamClosure ==
    (pc = "subgraphed") =>
        LET S == Range(selectedNodes)
            closure == {id \in Range(nodes) :
                          id \in S \/ \E t \in S : <<id, t>> \in Paths(nodes, edges)}
        IN /\ Range(nodesToExecute) = closure
           /\ nodesToExecute = SelectSeq(nodes, LAMBDA id : id \in closure)
           /\ edgesToExecute = SelectSeq(edges,
                  LAMBDA e : e.source \in closure /\ e.target \in closure)

\* Two selected nodes, an ancestor two edges away, and a node left out.
C7_Witness ==
    /\ pc = "subgraphed"
    /\ Len(selectedNodes) = 2
    /\ \E a \in Range(nodesToExecute) : \E t \in Range(selectedNodes) :
          /\ <<a, t>> \in Paths(nodes, edges)
          /\ <<a, t>> \notin EdgePairs(nodes, edges)
    /\ Len(nodesToExecute) < Len(nodes)
    /\ Len(edgesToExecute) < Len(edges)

\* C8 as stated: on a validated graph any two nodes with no directed path
\* between them (in either direction) are placed in the same wave.
C8_UnorderedNodesShareWave ==
    (pc = "grouped" /\ validation.valid) =>
        \A u, v \in Range(nodes) :
            (<<u, v>> \notin Paths(nodes, edges) /\ <<v, u>> \notin Paths(nodes, edges))
                => WaveOf(parallelGroups, u) = WaveOf(parallelGroups, v)

\* C8 amended: on a validated graph every node sits in the wave whose index
\* is the length of the longest directed path ending at it (the earliest wave
\* its predecessors allow); so the nodes of one wave have no path between
\* them, and two unordered nodes share a wave exactly when their longest
\* incoming paths are equally long.
C8_WaveIsLongestPathDepth ==
    (pc = "grouped" /\ validation.valid) =>
        /\ \A id \in Range(nodes) :
              WaveOf(parallelGroups, id) = 1 + Depth(EdgePairs(nodes, edges), id)
        /\ \A u, v \in Range(nodes) :
              (u # v /\ WaveOf(parallelGroups, u) = WaveOf(parallelGroups, v))
                  => <<u, v>> \notin Paths(nodes, edges)

\* Two unordered nodes in different waves: 1->2 with 3 isolated.
C8_Witness ==
    /\ pc = "grouped"
    /\ validation.valid
    /\ \E u, v \in Range(nodes) :
          /\ <<u, v>> \notin Paths(nodes, edges)
          /\ <<v, u>> \notin Paths(nodes, edges)
          /\ WaveOf(parallelGroups, u) # WaveOf(parallelGroups, v)

\* ------------------------------------------------ claims on the editor store
\* The step is a call of the store action of the given name.
StoreCall(name) == steps' = steps + 1 /\ lastOp'.name = name

\* The edge from source to target would leave an endpoint missing, join
\* types that do not fit, or close a directed cycle.
BadConnection(source, target) ==
    \/ source \notin Range(nodes)
    \/ target \notin Range(nodes)
    \/ ~canConnect(dataType(source), dataType(target))
    \/ HasDirectedCycle(nodes, Append(edges, [source |-> source, target |-> target]))

\* C32: an onConnect whose edge would close a cycle, or whose endpoints are
\* missing or do not fit by type, leaves nodes, edges and the history as they
\* are; and in every state the store reaches from the empty store by addNode,
\* onConnect, deleteNode, deleteEdge, undo and redo, the graph has no dangling
\* edge and no directed cycle, and validateDAG accepts it.
C32_EditorKeepsGraphValid ==
    /\ [][(StoreCall("onConnect") /\ BadConnection(lastOp'.args[1], lastOp'.args[2]))
            => UNCHANGED <<nodes, edges, history, historyIndex>>]_vars
    /\ [](workflowId = "null" =>
            /\ ~Dangling(nodes, edges)
            /\ ~HasDirectedCycle(nodes, edges)
            /\ validateDAG(nodes, edges).valid)

\* onConnect was just called for an edge between two nodes of fitting types
\* that would close a cycle with an edge of the store.
C32_Witness ==
    /\ workflowId = "null"
    /\ lastOp.name = "onConnect"
    /\ ~lastOp.done
    /\ Len(edges) >= 1
    /\ lastOp.args[1] \in Range(nodes)
    /\ lastOp.args[2] \in Range(nodes)
    /\ lastOp.args[1] # lastOp.args[2]
    /\ canConnect(dataType(lastOp.args[1]), dataType(lastOp.args[2]))
    /\ HasDirectedCycle(nodes, Append(edges, [source |-> lastOp.args[1],
                                              target |-> lastOp.args[2]]))
    /\ ~HasDirectedCycle(nodes, edges)

\* The store actions that edit the graph.
Edits == {"addNode", "onConnect", "deleteNode", "deleteEdge"}

\* C36: undo called right after an edit restores the nodes and edges from
\* just before that edit, and redo called right after that undo restores the
\* nodes and edges from just after the edit.
C36_UndoRedoRoundTrip ==
    /\ [][(lastOp.name \in Edits /\ lastOp.done /\ StoreCall("undo"))
            => Snapshot(nodes', edges') = lastEdit.before]_vars
    /\ [][(prevOp.name \in Edits /\ prevOp.done /\ lastOp.name = "undo"
             /\ StoreCall("redo"))
            => Snapshot(nodes', edges') = lastEdit.after]_vars

\* C37: the history never holds more than 50 snapshots; historyIndex is -1
\* when the history is empty and an index into it otherwise.
C37_HistoryBounded ==
    /\ Len(history) <= 50
    /\ (Len(history) = 0) => historyIndex = -1
    /\ (Len(history) > 0) => (0 <= historyIndex /\ historyIndex < Len(history))

\* An edit was made on a full history: the oldest snapshot went, the history
\* holds 50 snapshots and historyIndex is the last index.
C37_Witness ==
    /\ Len(history) = 50
    /\ historyIndex = 49
    /\ steps >= 2
    /\ lastOp.name = "addNode"
    /\ history[50].nodes # <<>>

\* ---------------------------------------- claims on the per-node execution
\* The run is over: it has a terminal status or its record is gone.
RunOver(r) == runRecords[r] \in {"COMPLETED", "FAILED", "CANCELLED", "DELETED"}

\* The client started run r and has polled or is polling it.
Polled(r) == pollPc[r] \in {"polling", "waiting", "stopped"} /\ runRecords[r] # "NONE"

\* C34: once every run the client started and polls is over (terminal status,
\* or record no longer there), isExecuting gets back to false.
C34_ExecutingEndsWithRun ==
    ((\E r \in DOMAIN pollPc : Polled(r))
        /\ (\A r \in DOMAIN pollPc : pollPc[r] # "posting" /\ (Polled(r) => RunOver(r))))
    ~> (~isExecuting)

\* C35: while a run the client polls is RUNNING, isExecuting is true and
\* currentRunId is set, whatever happened to the other runs.
C35_ExecutingCoversEveryRun ==
    (\E r \in DOMAIN pollPc : pollPc[r] \in {"polling", "waiting"} /\ runRecords[r] = "RUNNING")
        => (isExecuting /\ currentRunId # 0)

====
